---- MODULE Spec2Model ----
(***************************************************************************)
(* Command history stores (EphemeralHistory.ts, FileBackedHistory.ts) and  *)
(* the command prompt's key handler (index.ts) of inquirer-command-prompt. *)
(***************************************************************************)
EXTENDS Integers, Sequences, FiniteSets, TLC

VARIABLES
    impl,         \* which store class was constructed
    history,      \* this.history
    historyIndex, \* this.historyIndex
    currentLine,  \* this.currentLine
    config,       \* this.config
    historyFile,  \* this._historyFile
    files,        \* the file system: path -> content of the file at that path
    corrupted,    \* <<p, c>>: a file p.corrupted-<timestamp> exists and holds c
    log,          \* the calls made so far, each with its argument and result
    promptConfig, \* the prompt's config: required, validate
    status,       \* the prompt's status
    activeLines,  \* lines.activeLines
    inactiveLines,\* lines.inactiveLines
    displayContent, \* lines.displayContent
    multiLine,    \* the prompt's multiLine flag
    rlLine,       \* rl.line, the line readline is editing
    pending,      \* the awaited calls: the answer whose validation is
                  \* awaited, or the completion requests still unsettled
    answer,       \* the value the prompt resolved with, if any
    histories,    \* EphemeralHistory.js: this.histories, context -> entries
    historyIndexes, \* EphemeralHistory.js: this.historyIndexes
    process       \* "running", or "exited" once the runtime ended it

storeVars == <<impl, history, historyIndex, currentLine, config, historyFile>>
fsVars == <<files, corrupted>>
promptVars == <<promptConfig, status, activeLines, inactiveLines,
                displayContent, multiLine, rlLine, pending, answer>>
contextVars == <<histories, historyIndexes>>
outerVars == <<histories, historyIndexes, process>>
otherVars == <<promptVars, contextVars, process>>
vars == <<impl, history, historyIndex, currentLine, config, historyFile,
          files, corrupted, log, promptConfig, status, activeLines,
          inactiveLines, displayContent, multiLine, rlLine, pending, answer,
          histories, historyIndexes, process>>

----------------------------------------------------------------------------
(* Bounds *)

MaxLimit == 2       \* largest config.limit
MaxFileLen == 2     \* longest list found in a history file at start
MaxAddLimit == 3    \* largest config.limit of an add/navigate script
MaxAdds == 5        \* calls in an add/navigate script
MaxNav == 3         \* entries of the history a navigation script starts from
MaxLineLen == 1     \* characters typed into one line of the prompt
MaxPromptLines == 2 \* lines of a multi-line answer
MaxKeys == 4        \* up and down keys pressed since the last other key
MaxAnswerLen == 1   \* characters of a submitted answer, newlines included
MaxMultiAnswer == 3 \* characters of an answer of several lines
MaxPartial == 2     \* characters of the line a completion is asked for
MaxCandLen == 2     \* characters of a completion candidate
MaxCands == 2       \* candidates a supplier returns
MaxAsyncKeys == 4   \* events of a prompt whose supplier is awaited
MaxShown == 11      \* entries of a history listed with Shift+Right

(* Values *)

(* an object without keys *)
NoContexts == [c \in {} |-> <<>>]

(* a line is a sequence of characters; "" is the empty sequence *)
Chars == {"a", "b"}
EmptyLine == <<>>
Lines == {<<"a">>, <<"b">>}
Undefined == <<"undefined">>
NoFile == ""
Folders == {"d1", "d2"}
DEFAULT_HISTORY_FILE_NAME == "history.json"
Limits == 1..MaxLimit
Blacklists == {{}, {<<"b">>}}

RECURSIVE SeqsUpTo(_, _)
SeqsUpTo(S, n) ==
    IF n = 0 THEN {<<>>}
    ELSE LET shorter == SeqsUpTo(S, n - 1)
         IN shorter \cup {Append(q, e) : q \in shorter, e \in S}

Last(q) == q[Len(q)]

(* path.join(folder, fileName) *)
Join(folder, fileName) == folder \o "/" \o fileName

AllPaths == {Join(f, DEFAULT_HISTORY_FILE_NAME) : f \in Folders}

(* What a file can hold: no file, text that JSON.parse rejects, a JSON     *)
(* value without a truthy `history` member, or {history: [...]}.           *)
Absent == [kind |-> "absent", history |-> <<>>]
Corrupt == [kind |-> "corrupt", history |-> <<>>]
NoKey == [kind |-> "nokey", history |-> <<>>]
Stringify(list) == [kind |-> "list", history |-> list]

----------------------------------------------------------------------------
(* EphemeralHistory.ts / FileBackedHistory.ts: the methods as functions of *)
(* the fields they read, returning the fields they write.                  *)

Includes(blacklist, value) == value \in blacklist

(* history[history.length - 1] !== value; history[-1] is undefined *)
LastDiffers(h, value) == Len(h) = 0 \/ h[Len(h)] # value


Shift(h) == SubSeq(h, 2, Len(h))

(* add that never evicts *)
addEntry_noEviction(h, idx, cfg, value) ==
    IF Includes(cfg.blacklist, value)
    THEN [history |-> h, historyIndex |-> idx, returned |-> TRUE]
    ELSE LET kept == IF LastDiffers(h, value) THEN Append(h, value) ELSE h
         IN [history |-> kept, historyIndex |-> Len(kept), returned |-> FALSE]

(* add without the comparison with the last entry *)
addEntry_noDuplicateCheck(h, idx, cfg, value) ==
    IF Includes(cfg.blacklist, value)
    THEN [history |-> h, historyIndex |-> idx, returned |-> TRUE]
    ELSE LET pushed == Append(h, value)
             kept == IF cfg.limit # 0 /\ Len(pushed) > cfg.limit
                     THEN Shift(pushed) ELSE pushed
         IN [history |-> kept, historyIndex |-> Len(kept), returned |-> FALSE]

(* add that resets historyIndex only when it pushed *)
addEntry_indexOnlyOnPush(h, idx, cfg, value) ==
    IF Includes(cfg.blacklist, value)
    THEN [history |-> h, historyIndex |-> idx, returned |-> TRUE]
    ELSE LET pushed == IF LastDiffers(h, value) THEN Append(h, value) ELSE h
             kept == IF LastDiffers(h, value) /\ cfg.limit # 0
                                                  /\ Len(pushed) > cfg.limit
                     THEN Shift(pushed) ELSE pushed
         IN [history |-> kept,
             historyIndex |-> IF LastDiffers(h, value) THEN Len(kept) ELSE idx,
             returned |-> FALSE]

(* add that puts the new line in front of the others *)
addEntry_unshift(h, idx, cfg, value) ==
    IF Includes(cfg.blacklist, value)
    THEN [history |-> h, historyIndex |-> idx, returned |-> TRUE]
    ELSE LET pushed == IF LastDiffers(h, value) THEN <<value>> \o h ELSE h
             kept == IF LastDiffers(h, value) /\ cfg.limit # 0
                                                  /\ Len(pushed) > cfg.limit
                     THEN Shift(pushed) ELSE pushed
         IN [history |-> kept, historyIndex |-> Len(kept), returned |-> FALSE]

(* add, up to and including the reset of historyIndex (both classes) *)
addEntry(h, idx, cfg, value) ==
    IF Includes(cfg.blacklist, value)
    THEN [history |-> h, historyIndex |-> idx, returned |-> TRUE]
    ELSE LET pushed == IF LastDiffers(h, value) THEN Append(h, value) ELSE h
             kept == IF LastDiffers(h, value) /\ cfg.limit # 0
                                                  /\ Len(pushed) > cfg.limit
                     THEN Shift(pushed) ELSE pushed
         IN [history |-> kept, historyIndex |-> Len(kept), returned |-> FALSE]

(* h[i] of a JavaScript array: undefined outside 0..length-1 *)
At(h, i) == IF i \in 0..(Len(h) - 1) THEN h[i + 1] ELSE Undefined

(* getPrevious with the bound test off by one *)
getPrevious_offByOne(h, idx) ==
    IF idx >= 0
    THEN [historyIndex |-> idx - 1, ret |-> At(h, idx - 1)]
    ELSE [historyIndex |-> idx, ret |-> Undefined]

getPrevious(h, idx) ==
    IF idx > 0
    THEN [historyIndex |-> idx - 1, ret |-> At(h, idx - 1)]
    ELSE [historyIndex |-> idx, ret |-> Undefined]

(* getNext that returns an empty line at the draft position *)
getNext_emptyDraft(h, idx, cur) ==
    IF idx < Len(h) - 1
    THEN [historyIndex |-> idx + 1, ret |-> At(h, idx + 1)]
    ELSE IF idx = Len(h) - 1
    THEN [historyIndex |-> idx + 1, ret |-> EmptyLine]
    ELSE [historyIndex |-> idx, ret |-> Undefined]

getNext(h, idx, cur) ==
    IF idx < Len(h) - 1
    THEN [historyIndex |-> idx + 1, ret |-> At(h, idx + 1)]
    ELSE IF idx = Len(h) - 1
    THEN [historyIndex |-> idx + 1, ret |-> cur]
    ELSE [historyIndex |-> idx, ret |-> Undefined]

(* _getLimitedHistory that slices from the front *)
getLimitedHistory_fromFront(h, cfg) ==
    IF cfg.limit # 0 /\ Len(h) > cfg.limit
    THEN SubSeq(h, 1, cfg.limit)
    ELSE h

(* FileBackedHistory._getLimitedHistory *)
getLimitedHistory(h, cfg) ==
    IF cfg.limit # 0 /\ Len(h) > cfg.limit
    THEN SubSeq(h, Len(h) - cfg.limit + 1, Len(h))
    ELSE h

(* FileBackedHistory._ensureHistoryFile; dirOk: ensureDirSync succeeds *)
ensureHistoryFile(hf, dirOk) == IF hf # NoFile THEN dirOk ELSE FALSE

(* the path save and load fall back to when _historyFile is null *)
resolveFile(hf, cfg) ==
    IF hf = NoFile THEN Join(cfg.folder, cfg.fileName) ELSE hf

(* save that writes the whole in-memory list *)
save_wholeHistory(hf, h, cfg, fs, dirOk, writeOk) ==
    LET file == resolveFile(hf, cfg)
    IN IF ~ensureHistoryFile(file, dirOk)
       THEN [historyFile |-> file, files |-> fs,
             io |-> <<"ensureDirSync throws">>, failed |-> TRUE]
       ELSE [historyFile |-> file,
             files |-> IF writeOk
                       THEN [fs EXCEPT ![file] = Stringify(h)]
                       ELSE fs,
             io |-> <<"ensureDirSync",
                      IF writeOk THEN "writeFileSync"
                      ELSE "writeFileSync throws">>,
             failed |-> ~writeOk]

(* save that goes on to write after ensureDirSync threw *)
save_writesAfterDirFailure(hf, h, cfg, fs, dirOk, writeOk) ==
    LET file == resolveFile(hf, cfg)
    IN [historyFile |-> file,
        files |-> IF writeOk
                  THEN [fs EXCEPT ![file] =
                           Stringify(getLimitedHistory(h, cfg))]
                  ELSE fs,
        io |-> <<IF ensureHistoryFile(file, dirOk) THEN "ensureDirSync"
                 ELSE "ensureDirSync throws",
                 IF writeOk THEN "writeFileSync" ELSE "writeFileSync throws">>,
        failed |-> ~ensureHistoryFile(file, dirOk) \/ ~writeOk]

(* FileBackedHistory.save; dirOk, writeOk: ensureDirSync, writeFileSync    *)
(* succeed. A failed write leaves the file as it was. io lists the file    *)
(* system calls made, a call that threw marked as such; failed: an error   *)
(* was caught.                                                             *)
save(hf, h, cfg, fs, dirOk, writeOk) ==
    LET file == resolveFile(hf, cfg)
    IN IF ~ensureHistoryFile(file, dirOk)
       THEN [historyFile |-> file, files |-> fs,
             io |-> <<"ensureDirSync throws">>, failed |-> TRUE]
       ELSE [historyFile |-> file,
             files |-> IF writeOk
                       THEN [fs EXCEPT ![file] =
                                Stringify(getLimitedHistory(h, cfg))]
                       ELSE fs,
             io |-> <<"ensureDirSync",
                      IF writeOk THEN "writeFileSync"
                      ELSE "writeFileSync throws">>,
             failed |-> ~writeOk]

(* load that empties the history but leaves a corrupted file in place *)
load_noBackup(hf, h, idx, cfg, fs, cor, renameOk) ==
    LET file == resolveFile(hf, cfg)
        content == fs[file]
    IN IF content.kind = "absent"
       THEN [history |-> h, historyIndex |-> idx, historyFile |-> file,
             files |-> fs, corrupted |-> cor,
             io |-> <<"existsSync">>, failed |-> FALSE]
       ELSE IF content.kind = "list"
       THEN [history |-> content.history,
             historyIndex |-> Len(content.history), historyFile |-> file,
             files |-> fs, corrupted |-> cor,
             io |-> <<"existsSync", "readFileSync">>, failed |-> FALSE]
       ELSE IF content.kind = "nokey"
       THEN [history |-> h, historyIndex |-> idx, historyFile |-> file,
             files |-> fs, corrupted |-> cor,
             io |-> <<"existsSync", "readFileSync">>, failed |-> FALSE]
       ELSE [history |-> <<>>, historyIndex |-> 0, historyFile |-> file,
             files |-> fs, corrupted |-> cor,
             io |-> <<"existsSync", "readFileSync",
                      IF renameOk THEN "renameSync" ELSE "renameSync throws">>,
             failed |-> TRUE]

(* load that stops at a failed rename, the history as it was *)
load_renameAborts(hf, h, idx, cfg, fs, cor, renameOk) ==
    LET file == resolveFile(hf, cfg)
        content == fs[file]
    IN IF content.kind = "absent"
       THEN [history |-> h, historyIndex |-> idx, historyFile |-> file,
             files |-> fs, corrupted |-> cor,
             io |-> <<"existsSync">>, failed |-> FALSE]
       ELSE IF content.kind = "list"
       THEN [history |-> content.history,
             historyIndex |-> Len(content.history), historyFile |-> file,
             files |-> fs, corrupted |-> cor,
             io |-> <<"existsSync", "readFileSync">>, failed |-> FALSE]
       ELSE IF content.kind = "nokey"
       THEN [history |-> h, historyIndex |-> idx, historyFile |-> file,
             files |-> fs, corrupted |-> cor,
             io |-> <<"existsSync", "readFileSync">>, failed |-> FALSE]
       ELSE [history |-> IF renameOk THEN <<>> ELSE h,
             historyIndex |-> IF renameOk THEN 0 ELSE idx,
             historyFile |-> file,
             files |-> IF renameOk THEN [fs EXCEPT ![file] = Absent] ELSE fs,
             corrupted |-> IF renameOk THEN cor \cup {<<file, content>>}
                           ELSE cor,
             io |-> <<"existsSync", "readFileSync",
                      IF renameOk THEN "renameSync" ELSE "renameSync throws">>,
             failed |-> TRUE]

(* FileBackedHistory.load; renameOk: renameSync succeeds. JSON.parse      *)
(* throws on Corrupt content; failed: the catch block ran.                 *)
load(hf, h, idx, cfg, fs, cor, renameOk) ==
    LET file == resolveFile(hf, cfg)
        content == fs[file]
    IN IF content.kind = "absent"
       THEN [history |-> h, historyIndex |-> idx, historyFile |-> file,
             files |-> fs, corrupted |-> cor,
             io |-> <<"existsSync">>, failed |-> FALSE]
       ELSE IF content.kind = "list"
       THEN [history |-> content.history,
             historyIndex |-> Len(content.history), historyFile |-> file,
             files |-> fs, corrupted |-> cor,
             io |-> <<"existsSync", "readFileSync">>, failed |-> FALSE]
       ELSE IF content.kind = "nokey"
       THEN [history |-> h, historyIndex |-> idx, historyFile |-> file,
             files |-> fs, corrupted |-> cor,
             io |-> <<"existsSync", "readFileSync">>, failed |-> FALSE]
       ELSE [history |-> <<>>, historyIndex |-> 0, historyFile |-> file,
             files |-> IF renameOk THEN [fs EXCEPT ![file] = Absent] ELSE fs,
             corrupted |-> IF renameOk THEN cor \cup {<<file, content>>}
                           ELSE cor,
             io |-> <<"existsSync", "readFileSync",
                      IF renameOk THEN "renameSync" ELSE "renameSync throws">>,
             failed |-> TRUE]

(* add that saves before it looks at the blacklist *)
fileBackedAdd_savesBlacklisted(hf, h, idx, cfg, fs, value, dirOk, writeOk) ==
    LET r == addEntry(h, idx, cfg, value)
    IN IF ~cfg.save
       THEN [history |-> r.history, historyIndex |-> r.historyIndex,
             historyFile |-> hf, files |-> fs, io |-> <<>>, failed |-> FALSE]
       ELSE LET s == save(hf, r.history, cfg, fs, dirOk, writeOk)
            IN [history |-> r.history, historyIndex |-> r.historyIndex,
                historyFile |-> s.historyFile, files |-> s.files,
                io |-> s.io, failed |-> s.failed]

(* FileBackedHistory.add *)
fileBackedAdd(hf, h, idx, cfg, fs, value, dirOk, writeOk) ==
    LET r == addEntry(h, idx, cfg, value)
    IN IF r.returned \/ ~cfg.save
       THEN [history |-> r.history, historyIndex |-> r.historyIndex,
             historyFile |-> hf, files |-> fs, io |-> <<>>, failed |-> FALSE]
       ELSE LET s == save(hf, r.history, cfg, fs, dirOk, writeOk)
            IN [history |-> r.history, historyIndex |-> r.historyIndex,
                historyFile |-> s.historyFile, files |-> s.files,
                io |-> s.io, failed |-> s.failed]

(* {...this.config, ...config} for an argument {key: value} *)
merge(cfg, key, value) == [cfg EXCEPT ![key] = value]

(* EphemeralHistory.setConfig *)
setConfig(cfg, key, value) == merge(cfg, key, value)

(* setConfig that merges the config and keeps the path it had *)
fileBackedSetConfig_keepsPath(hf, cfg, key, value) ==
    [config |-> merge(cfg, key, value), historyFile |-> hf]

(* FileBackedHistory.setConfig: the path is re-derived when the argument   *)
(* holds a folder or a fileName                                            *)
fileBackedSetConfig(hf, cfg, key, value) ==
    LET merged == merge(cfg, key, value)
    IN [config |-> merged,
        historyFile |-> IF key = "folder" \/ key = "fileName"
                        THEN Join(merged.folder, merged.fileName)
                        ELSE hf]

(* new EphemeralHistory(config) *)
ephemeralNew(cfg) ==
    [history |-> <<>>, historyIndex |-> -1, currentLine |-> EmptyLine,
     config |-> cfg]

(* new FileBackedHistory(config) *)
fileBackedNew(cfg, fs, cor, renameOk) ==
    IF cfg.save
    THEN LET l == load(Join(cfg.folder, cfg.fileName), <<>>, 0, cfg, fs, cor,
                       renameOk)
         IN [history |-> l.history, historyIndex |-> l.historyIndex,
             currentLine |-> EmptyLine, config |-> cfg,
             historyFile |-> l.historyFile, files |-> l.files,
             corrupted |-> l.corrupted, io |-> l.io, failed |-> l.failed]
    ELSE [history |-> <<>>, historyIndex |-> 0, currentLine |-> EmptyLine,
          config |-> cfg, historyFile |-> NoFile, files |-> fs,
          corrupted |-> cor, io |-> <<>>, failed |-> FALSE]

----------------------------------------------------------------------------
(* FileBackedHistory.js, the JavaScript class of the same name: its save   *)
(* and load return at once unless config.save is set and the path is       *)
(* known; its constructor, setConfig and add read as in the class above.   *)

saveJs(hf, h, cfg, fs, dirOk, writeOk) ==
    IF ~cfg.save \/ hf = NoFile
    THEN [historyFile |-> hf, files |-> fs, io |-> <<>>, failed |-> FALSE]
    ELSE save(hf, h, cfg, fs, dirOk, writeOk)

loadJs(hf, h, idx, cfg, fs, cor, renameOk) ==
    IF ~cfg.save \/ hf = NoFile
    THEN [history |-> h, historyIndex |-> idx, historyFile |-> hf,
          files |-> fs, corrupted |-> cor, io |-> <<>>, failed |-> FALSE]
    ELSE load(hf, h, idx, cfg, fs, cor, renameOk)

addJs(hf, h, idx, cfg, fs, value, dirOk, writeOk) ==
    LET r == addEntry(h, idx, cfg, value)
    IN IF r.returned \/ ~cfg.save
       THEN [history |-> r.history, historyIndex |-> r.historyIndex,
             historyFile |-> hf, files |-> fs, io |-> <<>>, failed |-> FALSE]
       ELSE LET s == saveJs(hf, r.history, cfg, fs, dirOk, writeOk)
            IN [history |-> r.history, historyIndex |-> r.historyIndex,
                historyFile |-> s.historyFile, files |-> s.files,
                io |-> s.io, failed |-> s.failed]

----------------------------------------------------------------------------
(* EphemeralHistory.js, the context-keyed store: histories and             *)
(* historyIndexes are objects keyed by context; a context without a key    *)
(* reads as undefined.                                                     *)

Contexts == {"A", "B"}

(* obj[key] = value *)
Put(obj, key, value) ==
    [k \in DOMAIN obj \cup {key} |-> IF k = key THEN value ELSE obj[k]]

init(hs, is, context) ==
    IF context \in DOMAIN hs
    THEN [histories |-> hs, historyIndexes |-> is]
    ELSE [histories |-> Put(hs, context, <<>>),
          historyIndexes |-> Put(is, context, 0)]

contextAdd(hs, is, cfg, context, value) ==
    LET i == init(hs, is, context)
        r == addEntry(i.histories[context], i.historyIndexes[context], cfg,
                      value)
    IN [histories |-> Put(i.histories, context, r.history),
        historyIndexes |-> Put(i.historyIndexes, context, r.historyIndex)]

contextGetPrevious(hs, is, context) ==
    LET i == init(hs, is, context)
        r == getPrevious(i.histories[context], i.historyIndexes[context])
    IN [histories |-> i.histories,
        historyIndexes |-> Put(i.historyIndexes, context, r.historyIndex),
        ret |-> r.ret]

(* getNext returns undefined where the single-context store returns the    *)
(* current line                                                            *)
contextGetNext(hs, is, context) ==
    LET i == init(hs, is, context)
        r == getNext(i.histories[context], i.historyIndexes[context],
                     Undefined)
    IN [histories |-> i.histories,
        historyIndexes |-> Put(i.historyIndexes, context, r.historyIndex),
        ret |-> r.ret]

contextGetAll(hs, is, context) ==
    LET i == init(hs, is, context)
    IN [histories |-> i.histories, historyIndexes |-> i.historyIndexes,
        list |-> i.histories[context]]

(* clear that empties every context *)
clear_everyContext(hs, is, context) ==
    IF context \in DOMAIN hs
    THEN [histories |-> [k \in DOMAIN hs |-> <<>>],
          historyIndexes |-> [k \in DOMAIN is |-> 0]]
    ELSE [histories |-> hs, historyIndexes |-> is]

(* clear that leaves the cursor where it was *)
clear_keepsCursor(hs, is, context) ==
    IF context \in DOMAIN hs
    THEN [histories |-> Put(hs, context, <<>>), historyIndexes |-> is]
    ELSE [histories |-> hs, historyIndexes |-> is]

clear(hs, is, context) ==
    IF context \in DOMAIN hs
    THEN [histories |-> Put(hs, context, <<>>),
          historyIndexes |-> Put(is, context, 0)]
    ELSE [histories |-> hs, historyIndexes |-> is]

clearAll == [histories |-> NoContexts, historyIndexes |-> NoContexts]

----------------------------------------------------------------------------
(* The store as a state machine: one action per method call.               *)

ConfigsOver(limits, folders) ==
    [limit : limits, blacklist : Blacklists, save : BOOLEAN,
     folder : folders, fileName : {DEFAULT_HISTORY_FILE_NAME}]

Configs == ConfigsOver(Limits, Folders)

(* the folder of the store specification; the others stay unused there *)
StoreFolders == {"d1"}

(* what a history file may hold before the program starts *)
InitialContents ==
    {Absent, Corrupt, NoKey}
        \cup {Stringify(l) : l \in SeqsUpTo(Lines, MaxFileLen)}

(* a call: its argument, its result (ret, or list for getAll), the file    *)
(* system calls it made and whether one of them failed                     *)
Call(op, arg, ret, list, io, failed) ==
    [op |-> op, arg |-> arg, ret |-> ret, list |-> list, io |-> io,
     failed |-> failed]

(* keep = TRUE: the log holds every call; FALSE: only the last one *)
Record(call, keep) == log' = IF keep THEN Append(log, call) ELSE <<call>>

LastCall == log[Len(log)]

(* index.ts createPrompt: the state of a prompt before its first key. No   *)
(* default value is configured, so the first active line is "".            *)
PromptConfigs == [required : BOOLEAN, validate : BOOLEAN]

NoDisplay == "null"

InitPromptVars(pc) ==
    /\ promptConfig = pc
    /\ status = "idle"
    /\ activeLines = <<EmptyLine>>
    /\ inactiveLines = <<>>
    /\ displayContent = NoDisplay
    /\ multiLine = FALSE
    /\ rlLine = EmptyLine
    /\ pending = <<>>
    /\ answer = Undefined

(* the store specifications have no prompt and no context-keyed store *)
NoPrompt ==
    /\ InitPromptVars([required |-> FALSE, validate |-> FALSE])
    /\ histories = NoContexts
    /\ historyIndexes = NoContexts
    /\ process = "running"

InitEphemeral ==
    \E cfg \in Configs :
        LET n == ephemeralNew(cfg)
        IN /\ cfg.save = FALSE /\ cfg.folder = "d1"
           /\ impl = "Ephemeral"
           /\ history = n.history
           /\ historyIndex = n.historyIndex
           /\ currentLine = n.currentLine
           /\ config = n.config
           /\ historyFile = NoFile
           /\ files = [p \in AllPaths |-> Absent]
           /\ corrupted = {}
           /\ log = <<Call("new", EmptyLine, Undefined, <<>>, <<>>, FALSE)>>

InitFileBacked ==
    \E cfg \in ConfigsOver(Limits, StoreFolders), c0 \in InitialContents, renameOk \in BOOLEAN :
        LET fs == [p \in AllPaths |->
                     IF p = Join("d1", DEFAULT_HISTORY_FILE_NAME)
                     THEN c0 ELSE Absent]
            n == fileBackedNew(cfg, fs, {}, renameOk)
        IN /\ impl = "FileBacked"
           /\ history = n.history
           /\ historyIndex = n.historyIndex
           /\ currentLine = n.currentLine
           /\ config = n.config
           /\ historyFile = n.historyFile
           /\ files = n.files
           /\ corrupted = n.corrupted
           /\ log = <<Call("new", EmptyLine, Undefined, <<>>, n.io, n.failed)>>

Init == (InitEphemeral \/ InitFileBacked) /\ NoPrompt

Add(value, keep) ==
    \/ /\ impl = "Ephemeral"
       /\ LET r == addEntry(history, historyIndex, config, value)
          IN /\ history' = r.history
             /\ historyIndex' = r.historyIndex
             /\ Record(Call("add", value, Undefined, <<>>, <<>>, FALSE), keep)
       /\ UNCHANGED <<impl, currentLine, config, historyFile, files, corrupted>>
    \/ /\ impl = "FileBacked"
       /\ \E dirOk, writeOk \in BOOLEAN :
            LET r == fileBackedAdd(historyFile, history, historyIndex, config,
                                   files, value, dirOk, writeOk)
            IN /\ history' = r.history
               /\ historyIndex' = r.historyIndex
               /\ historyFile' = r.historyFile
               /\ files' = r.files
               /\ Record(Call("add", value, Undefined, <<>>, r.io, r.failed), keep)
       /\ UNCHANGED <<impl, currentLine, config, corrupted>>

SetCurrent(line, keep) ==
    /\ currentLine' = line
    /\ Record(Call("setCurrent", line, Undefined, <<>>, <<>>, FALSE), keep)
    /\ UNCHANGED <<impl, history, historyIndex, config, historyFile, files,
                   corrupted>>

GetPrevious(keep) ==
    LET r == getPrevious(history, historyIndex)
    IN /\ historyIndex' = r.historyIndex
       /\ Record(Call("getPrevious", EmptyLine, r.ret, <<>>, <<>>, FALSE), keep)
       /\ UNCHANGED <<impl, history, currentLine, config, historyFile, files,
                      corrupted>>

GetNext(keep) ==
    LET r == getNext(history, historyIndex, currentLine)
    IN /\ historyIndex' = r.historyIndex
       /\ Record(Call("getNext", EmptyLine, r.ret, <<>>, <<>>, FALSE), keep)
       /\ UNCHANGED <<impl, history, currentLine, config, historyFile, files,
                      corrupted>>

(* getAll returns a copy of the list *)
GetAll(keep) ==
    /\ Record(Call("getAll", EmptyLine, Undefined, history, <<>>, FALSE), keep)
    /\ UNCHANGED <<impl, history, historyIndex, currentLine, config,
                   historyFile, files, corrupted>>

(* EphemeralHistory.clear; FileBackedHistory has no clear *)
Clear(keep) ==
    /\ impl = "Ephemeral"
    /\ history' = <<>>
    /\ historyIndex' = 0
    /\ Record(Call("clear", EmptyLine, Undefined, <<>>, <<>>, FALSE), keep)
    /\ UNCHANGED <<impl, currentLine, config, historyFile, files, corrupted>>

(* the values setConfig is called with, per key *)
ConfigValues(key) ==
    CASE key = "limit" -> Limits
      [] key = "blacklist" -> Blacklists
      [] key = "save" -> BOOLEAN
      [] key = "folder" -> StoreFolders
      [] key = "fileName" -> {DEFAULT_HISTORY_FILE_NAME}

SetConfig(keep) ==
    \/ /\ impl = "Ephemeral"
       /\ \E key \in {"limit", "blacklist"} : \E value \in ConfigValues(key) :
            config' = setConfig(config, key, value)
       /\ Record(Call("setConfig", EmptyLine, Undefined, <<>>, <<>>, FALSE), keep)
       /\ UNCHANGED <<impl, history, historyIndex, currentLine, historyFile,
                      files, corrupted>>
    \/ /\ impl = "FileBacked"
       /\ \E key \in DOMAIN config : \E value \in ConfigValues(key) :
            LET r == fileBackedSetConfig(historyFile, config, key, value)
            IN config' = r.config /\ historyFile' = r.historyFile
       /\ Record(Call("setConfig", EmptyLine, Undefined, <<>>, <<>>, FALSE), keep)
       /\ UNCHANGED <<impl, history, historyIndex, currentLine, files,
                      corrupted>>

Save(keep) ==
    /\ impl = "FileBacked"
    /\ \E dirOk, writeOk \in BOOLEAN :
         LET s == save(historyFile, history, config, files, dirOk, writeOk)
         IN /\ historyFile' = s.historyFile
            /\ files' = s.files
            /\ Record(Call("save", EmptyLine, Undefined, <<>>, s.io, s.failed), keep)
    /\ UNCHANGED <<impl, history, historyIndex, currentLine, config,
                   corrupted>>

Load(keep) ==
    /\ impl = "FileBacked"
    /\ \E renameOk \in BOOLEAN :
         LET l == load(historyFile, history, historyIndex, config, files,
                       corrupted, renameOk)
         IN /\ history' = l.history
            /\ historyIndex' = l.historyIndex
            /\ historyFile' = l.historyFile
            /\ files' = l.files
            /\ corrupted' = l.corrupted
            /\ Record(Call("load", EmptyLine, Undefined, <<>>, l.io, l.failed), keep)
    /\ UNCHANGED <<impl, currentLine, config>>

Next ==
    \/ \E value \in Lines : Add(value, FALSE) /\ UNCHANGED otherVars
    \/ \E line \in Lines : SetCurrent(line, FALSE) /\ UNCHANGED otherVars
    \/ GetPrevious(FALSE) /\ UNCHANGED otherVars
    \/ GetNext(FALSE) /\ UNCHANGED otherVars
    \/ GetAll(FALSE) /\ UNCHANGED otherVars
    \/ Clear(FALSE) /\ UNCHANGED otherVars
    \/ SetConfig(FALSE) /\ UNCHANGED otherVars
    \/ Save(FALSE) /\ UNCHANGED otherVars
    \/ Load(FALSE) /\ UNCHANGED otherVars

Spec == Init /\ [][Next]_vars

TypeOK ==
    /\ impl \in {"Ephemeral", "FileBacked", "FileBackedJs", "EphemeralJs"}
    /\ history \in Seq(Lines)
    /\ historyIndex \in -1..Len(history)
    /\ config \in ConfigsOver(1..(MaxLimit + MaxAddLimit), Folders)
    /\ currentLine \in Lines \cup {EmptyLine}
    /\ historyFile \in AllPaths \cup {NoFile}
    /\ files \in [AllPaths -> [kind : {"absent", "corrupt", "nokey", "list"},
                                history : Seq(Lines)]]
    /\ corrupted \subseteq (AllPaths \X {Corrupt})
    /\ Len(log) >= 1

----------------------------------------------------------------------------
(* Scripts of add and navigation calls on a history that starts empty, the *)
(* log holding every call.                                                 *)

InitAdd ==
    \E cfg \in ConfigsOver(1..MaxAddLimit, StoreFolders) :
        /\ \/ /\ impl = "Ephemeral"
              /\ cfg.save = FALSE
              /\ historyIndex = ephemeralNew(cfg).historyIndex
              /\ historyFile = NoFile
           \/ /\ impl = "FileBacked"
              /\ LET n == fileBackedNew(cfg, [p \in AllPaths |-> Absent], {},
                                        TRUE)
                 IN historyIndex = n.historyIndex
                    /\ historyFile = n.historyFile
        /\ history = <<>>
        /\ currentLine = EmptyLine
        /\ config = cfg
        /\ files = [p \in AllPaths |-> Absent]
        /\ corrupted = {}
        /\ log = <<Call("new", EmptyLine, Undefined, <<>>, <<>>, FALSE)>>
        /\ NoPrompt

NextAdd ==
    \/ /\ Len(log) <= MaxAdds
       /\ \E value \in Lines : Add(value, TRUE)
       /\ UNCHANGED otherVars
    \/ /\ Len(log) <= MaxAdds
       /\ GetPrevious(TRUE)
       /\ UNCHANGED otherVars
    \/ /\ Len(log) <= MaxAdds
       /\ GetNext(TRUE)
       /\ UNCHANGED otherVars

SpecAdd == InitAdd /\ [][NextAdd]_vars

(* Navigation scripts from the draft position of a non-empty history, as   *)
(* the last add left it.                                                   *)

NoAdjacentDuplicates(h) == \A i \in 1..(Len(h) - 1) : h[i] # h[i + 1]

InitNav ==
    \E h \in SeqsUpTo(Lines, MaxNav), cur \in Lines \cup {EmptyLine},
       i \in {"Ephemeral", "FileBacked"} :
        /\ Len(h) >= 1
        /\ NoAdjacentDuplicates(h)
        /\ impl = i
        /\ history = h
        /\ historyIndex = Len(h)
        /\ currentLine = cur
        /\ config = [limit |-> MaxNav, blacklist |-> {}, save |-> FALSE,
                     folder |-> "d1", fileName |-> DEFAULT_HISTORY_FILE_NAME]
        /\ historyFile = NoFile
        /\ files = [p \in AllPaths |-> Absent]
        /\ corrupted = {}
        /\ log = <<Call("add", Last(h), Undefined, <<>>, <<>>, FALSE)>>
        /\ NoPrompt

NextNav ==
    \/ /\ Len(log) <= 2 * MaxNav + 2
       /\ GetPrevious(TRUE)
       /\ UNCHANGED otherVars
    \/ /\ Len(log) <= 2 * MaxNav + 2
       /\ GetNext(TRUE)
       /\ UNCHANGED otherVars

SpecNav == InitNav /\ [][NextNav]_vars

----------------------------------------------------------------------------
(* getAll and what its caller does with the list it got. An array is a     *)
(* reference: the returned list is either the store's own array or a new   *)
(* one, and a push by the caller reaches this.history in the first case.   *)

(* getAll that hands out this.history itself *)
getAll_sameArray(h) == [list |-> h, shared |-> TRUE]

(* return [...this.history] *)
getAll(h) == [list |-> h, shared |-> FALSE]

ListCall(op, arg, list, shared) ==
    [op |-> op, arg |-> arg, list |-> list, shared |-> shared]

GetAllList ==
    /\ LET r == getAll(history)
       IN log' = <<ListCall("getAll", EmptyLine, r.list, r.shared)>>
    /\ UNCHANGED <<impl, history, historyIndex, currentLine, config,
                   historyFile, files, corrupted>>

(* the caller's list.push(value) on the list the last getAll returned *)
PushToReturned(value) ==
    /\ LastCall.op \in {"getAll", "push"}
    /\ Len(LastCall.list) <= MaxNav
    /\ log' = <<ListCall("push", value, Append(LastCall.list, value),
                         LastCall.shared)>>
    /\ history' = IF LastCall.shared THEN Append(history, value) ELSE history
    /\ UNCHANGED <<impl, historyIndex, currentLine, config, historyFile,
                   files, corrupted>>

NextGetAll ==
    \/ GetPrevious(FALSE) /\ UNCHANGED otherVars
    \/ GetNext(FALSE) /\ UNCHANGED otherVars
    \/ GetAllList /\ UNCHANGED otherVars
    \/ \E value \in Lines : PushToReturned(value) /\ UNCHANGED otherVars

SpecGetAll == InitNav /\ [][NextGetAll]_vars

----------------------------------------------------------------------------
(* A FileBackedHistory and its files in two folders: add, setConfig, save, *)
(* load and the construction of a new instance over the same files. The    *)
(* log holds the last call.                                                *)

PathOf(cfg) == Join(cfg.folder, cfg.fileName)

(* what the file of the second folder may hold before the program starts *)
OtherContents == {Absent, Stringify(<<<<"b">>>>)}

FileConfigs == {cfg \in Configs : cfg.blacklist = {}}

InitFile ==
    \E cfg \in FileConfigs, c1 \in InitialContents, c2 \in OtherContents,
       renameOk \in BOOLEAN :
        LET fs == [p \in AllPaths |->
                     IF p = Join("d1", DEFAULT_HISTORY_FILE_NAME)
                     THEN c1 ELSE c2]
            n == fileBackedNew(cfg, fs, {}, renameOk)
        IN /\ cfg.folder = "d1"
           /\ impl = "FileBacked"
           /\ history = n.history
           /\ historyIndex = n.historyIndex
           /\ currentLine = n.currentLine
           /\ config = n.config
           /\ historyFile = n.historyFile
           /\ files = n.files
           /\ corrupted = n.corrupted
           /\ log = <<Call("new", EmptyLine, Undefined, <<>>, n.io, n.failed)>>
           /\ NoPrompt

(* the configs a later instance is made with: any folder and save flag,    *)
(* the limit of the instance before it                                     *)
SameLimit == {cfg \in FileConfigs : cfg.limit = config.limit}

(* new FileBackedHistory(cfg) while the files are as the program left them *)
New(cfg, keep) ==
    \E renameOk \in BOOLEAN :
        LET n == fileBackedNew(cfg, files, corrupted, renameOk)
        IN /\ impl' = impl
           /\ history' = n.history
           /\ historyIndex' = n.historyIndex
           /\ currentLine' = n.currentLine
           /\ config' = n.config
           /\ historyFile' = n.historyFile
           /\ files' = n.files
           /\ corrupted' = n.corrupted
           /\ Record(Call("new", EmptyLine, Undefined, <<>>, n.io, n.failed),
                     keep)

(* setConfig({key: value}) on a FileBackedHistory, logged with its key *)
SetConfigTo(key, value, keep) ==
    /\ impl # "Ephemeral"
    /\ LET r == fileBackedSetConfig(historyFile, config, key, value)
       IN config' = r.config /\ historyFile' = r.historyFile
    /\ Record(Call("setConfig", <<key>>, Undefined, <<>>, <<>>, FALSE), keep)
    /\ UNCHANGED <<impl, history, historyIndex, currentLine, files, corrupted>>

(* Scripts of add and setConfig({limit}) on a FileBackedHistory that starts *)
(* empty and saves nothing: the entries exceed the limit only when         *)
(* setConfig lowered it.                                                   *)
InitLimit ==
    /\ InitAdd
    /\ impl = "FileBacked"
    /\ config.save = FALSE
    /\ config.blacklist = {}

NextLimit ==
    \/ /\ Len(log) <= MaxAdds
       /\ \E value \in Lines : Add(value, TRUE)
       /\ UNCHANGED otherVars
    \/ /\ Len(log) <= MaxAdds
       /\ \E limit \in 1..MaxAddLimit : SetConfigTo("limit", limit, TRUE)
       /\ UNCHANGED otherVars

SpecLimit == InitLimit /\ [][NextLimit]_vars

NextFile ==
    \/ \E value \in Lines : Add(value, FALSE) /\ UNCHANGED otherVars
    \/ \E folder \in Folders :
          SetConfigTo("folder", folder, FALSE) /\ UNCHANGED otherVars
    \/ SetConfigTo("fileName", DEFAULT_HISTORY_FILE_NAME, FALSE)
          /\ UNCHANGED otherVars
    \/ \E flag \in BOOLEAN :
          SetConfigTo("save", flag, FALSE) /\ UNCHANGED otherVars
    \/ Save(FALSE) /\ UNCHANGED otherVars
    \/ Load(FALSE) /\ UNCHANGED otherVars
    \/ \E cfg \in SameLimit : New(cfg, FALSE) /\ UNCHANGED otherVars

SpecFile == InitFile /\ [][NextFile]_vars

(* The same for FileBackedHistory.js *)

InitFileJs ==
    \E cfg \in FileConfigs, c1 \in InitialContents, c2 \in OtherContents,
       renameOk \in BOOLEAN :
        LET fs == [p \in AllPaths |->
                     IF p = Join("d1", DEFAULT_HISTORY_FILE_NAME)
                     THEN c1 ELSE c2]
            n == fileBackedNew(cfg, fs, {}, renameOk)
        IN /\ cfg.folder = "d1"
           /\ impl = "FileBackedJs"
           /\ history = n.history
           /\ historyIndex = n.historyIndex
           /\ currentLine = n.currentLine
           /\ config = n.config
           /\ historyFile = n.historyFile
           /\ files = n.files
           /\ corrupted = n.corrupted
           /\ log = <<Call("new", EmptyLine, Undefined, <<>>, n.io, n.failed)>>
           /\ NoPrompt

AddJs(value, keep) ==
    /\ impl = "FileBackedJs"
    /\ \E dirOk, writeOk \in BOOLEAN :
         LET r == addJs(historyFile, history, historyIndex, config, files,
                        value, dirOk, writeOk)
         IN /\ history' = r.history
            /\ historyIndex' = r.historyIndex
            /\ historyFile' = r.historyFile
            /\ files' = r.files
            /\ Record(Call("add", value, Undefined, <<>>, r.io, r.failed), keep)
    /\ UNCHANGED <<impl, currentLine, config, corrupted>>

SaveJs(keep) ==
    /\ impl = "FileBackedJs"
    /\ \E dirOk, writeOk \in BOOLEAN :
         LET s == saveJs(historyFile, history, config, files, dirOk, writeOk)
         IN /\ historyFile' = s.historyFile
            /\ files' = s.files
            /\ Record(Call("save", EmptyLine, Undefined, <<>>, s.io, s.failed),
                      keep)
    /\ UNCHANGED <<impl, history, historyIndex, currentLine, config,
                   corrupted>>

LoadJs(keep) ==
    /\ impl = "FileBackedJs"
    /\ \E renameOk \in BOOLEAN :
         LET l == loadJs(historyFile, history, historyIndex, config, files,
                         corrupted, renameOk)
         IN /\ history' = l.history
            /\ historyIndex' = l.historyIndex
            /\ historyFile' = l.historyFile
            /\ files' = l.files
            /\ corrupted' = l.corrupted
            /\ Record(Call("load", EmptyLine, Undefined, <<>>, l.io, l.failed),
                      keep)
    /\ UNCHANGED <<impl, currentLine, config>>

NextFileJs ==
    \/ \E value \in Lines : AddJs(value, FALSE) /\ UNCHANGED otherVars
    \/ \E folder \in Folders :
          SetConfigTo("folder", folder, FALSE) /\ UNCHANGED otherVars
    \/ \E limit \in Limits :
          SetConfigTo("limit", limit, FALSE) /\ UNCHANGED otherVars
    \/ \E flag \in BOOLEAN :
          SetConfigTo("save", flag, FALSE) /\ UNCHANGED otherVars
    \/ SaveJs(FALSE) /\ UNCHANGED otherVars
    \/ LoadJs(FALSE) /\ UNCHANGED otherVars
    \/ \E cfg \in SameLimit : New(cfg, FALSE) /\ UNCHANGED otherVars

SpecFileJs == InitFileJs /\ [][NextFileJs]_vars

----------------------------------------------------------------------------
(* autoCompleterFormatter of index.ts and of index.js. A string is a        *)
(* sequence of characters. The candidates a supplier returns are strings;  *)
(* the list may start with a configuration object, which is held apart     *)
(* from the strings: options is "absent", "plain" (an object without a      *)
(* filter function) or "cut" (an object whose filter is                    *)
(* str => str.split(".")[0]).                                              *)

CompletionChars == {"a", "."}
Backslash == "\\"

(* the characters the replace of sanitizedLine puts a backslash before *)
Escaped == {Backslash, ".", "+", "*", "?", "^", "$", "[", "]", "(", ")",
            "{", "}", "/", "'", "#", ":", "!", "=", "|"}

(* line.replace(...) that escapes nothing *)
sanitizedLine_unescaped(line) == line

(* line.replace(/[\\.+*?^$\[\](){}\/'#:!=|]/gi, "\\$&") *)
RECURSIVE sanitizedLine(_)
sanitizedLine(line) ==
    IF Len(line) = 0 THEN <<>>
    ELSE (IF Head(line) \in Escaped THEN <<Backslash, Head(line)>>
          ELSE <<Head(line)>>) \o sanitizedLine(Tail(line))

(* RegExp(`^${pattern}`).test(str) for a pattern of literal characters,    *)
(* escaped characters and dots: a backslash makes the next character       *)
(* literal, a dot matches every character but a line terminator            *)
RECURSIVE RegExpTest(_, _)
RegExpTest(pattern, str) ==
    IF Len(pattern) = 0 THEN TRUE
    ELSE IF Head(pattern) = Backslash
    THEN /\ Len(pattern) >= 2
         /\ Len(str) >= 1
         /\ Head(str) = pattern[2]
         /\ RegExpTest(Tail(Tail(pattern)), Tail(str))
    ELSE /\ Len(str) >= 1
         /\ IF Head(pattern) = "." THEN Head(str) # "\n"
            ELSE Head(str) = Head(pattern)
         /\ RegExpTest(Tail(pattern), Tail(str))

(* String(el) of an object *)
ObjectString == <<"[", "o", "b", "j", "e", "c", "t", " ", "O", "b", "j", "e",
                  "c", "t", "]">>

(* the elements of the resolved list as index.ts sees them: String(el) *)
Elements(options, cmds) ==
    IF options = "absent" THEN cmds ELSE <<ObjectString>> \o cmds

(* the reduce: the elements the anchored pattern matches, in their order *)
RECURSIVE filteredCmds(_, _)
filteredCmds(line, els) ==
    IF Len(els) = 0 THEN <<>>
    ELSE (IF RegExpTest(sanitizedLine(line), Head(els)) THEN <<Head(els)>>
          ELSE <<>>) \o filteredCmds(line, Tail(els))

(* max: the length of the longest matched element, 0 when there is none *)
RECURSIVE MaxLength(_)
MaxLength(ls) ==
    IF Len(ls) = 0 THEN 0
    ELSE LET rest == MaxLength(Tail(ls))
         IN IF Len(Head(ls)) > rest THEN Len(Head(ls)) ELSE rest

(* array.slice(0, n) *)
Slice(ls, n) == SubSeq(ls, 1, IF n < Len(ls) THEN n ELSE Len(ls))

(* index.ts: the matched elements, cut to the length of the longest one *)
autoCompleterFormatter(line, options, cmds) ==
    LET filtered == filteredCmds(line, Elements(options, cmds))
    IN Slice(filtered, MaxLength(filtered))

(* options.filter *)
RECURSIVE BeforeDot(_)
BeforeDot(str) ==
    IF Len(str) = 0 THEN <<>>
    ELSE IF Head(str) = "." THEN <<>>
    ELSE <<Head(str)>> \o BeforeDot(Tail(str))

Filter(options, str) == IF options = "cut" THEN BeforeDot(str) ELSE str

(* the LOOP of index.js: the characters from position i (counted from 0)   *)
(* on that every matched candidate has and that are the same in all        *)
RECURSIVE commonStr(_, _, _)
commonStr(filtered, i, max) ==
    IF i >= max THEN <<>>
    ELSE IF \A k \in 1..Len(filtered) :
                /\ Len(filtered[k]) > i
                /\ filtered[k][i + 1] = filtered[1][i + 1]
    THEN <<filtered[1][i + 1]>> \o commonStr(filtered, i + 1, max)
    ELSE <<>>

Match(str) == [kind |-> "match", match |-> str, matches |-> <<>>]
Matches(ls) == [kind |-> "matches", match |-> Undefined, matches |-> ls]

(* index.js: the configuration object is taken off the list, then the      *)
(* result is a match (one candidate, the common extension, or the line     *)
(* itself) passed through the filter, or the list of the matches           *)
autoCompleterFormatterJs(line, options, cmds) ==
    LET filtered == filteredCmds(line, cmds)
        common == commonStr(filtered, Len(line), MaxLength(filtered))
    IN IF Len(filtered) > 1
       THEN IF common # <<>> THEN Match(Filter(options, line \o common))
            ELSE Matches(filtered)
       ELSE IF Len(filtered) = 1 THEN Match(Filter(options, filtered[1]))
       ELSE Match(Filter(options, line))

(* cmd.startsWith(line) *)
StartsWith(str, prefix) ==
    /\ Len(prefix) <= Len(str)
    /\ SubSeq(str, 1, Len(prefix)) = prefix

(* autoCompletion.filter((cmd) => cmd.startsWith(line)) *)
RECURSIVE Starting(_, _)
Starting(ls, prefix) ==
    IF Len(ls) = 0 THEN <<>>
    ELSE (IF StartsWith(Head(ls), prefix) THEN <<Head(ls)>> ELSE <<>>)
         \o Starting(Tail(ls), prefix)

(* The formatters applied to every line and every list of candidates up   *)
(* to the bounds; the log holds the call and what it gave.                 *)

Partials == SeqsUpTo(CompletionChars, MaxPartial)
Candidates == SeqsUpTo(CompletionChars, MaxCandLen)
CandidateLists == SeqsUpTo(Candidates, MaxCands)
Options == {"absent", "plain", "cut"}

FormatCall(op, line, options, cmds, filtered, result) ==
    [op |-> op, line |-> line, options |-> options, cmds |-> cmds,
     filtered |-> filtered, result |-> result]

InitFormat ==
    /\ \E line \in Partials, options \in Options, cmds \in CandidateLists :
          log = <<FormatCall("input", line, options, cmds, <<>>, <<>>)>>
    /\ impl = "Ephemeral"
    /\ history = <<>>
    /\ historyIndex = 0
    /\ currentLine = EmptyLine
    /\ config = [limit |-> MaxLimit, blacklist |-> {}, save |-> FALSE,
                 folder |-> "d1", fileName |-> DEFAULT_HISTORY_FILE_NAME]
    /\ historyFile = NoFile
    /\ files = [p \in AllPaths |-> Absent]
    /\ corrupted = {}
    /\ NoPrompt

(* index.ts autoCompleterFormatter(line, cmds) *)
Format ==
    /\ LastCall.op = "input"
    /\ LET c == LastCall
       IN log' = <<FormatCall("format.ts", c.line, c.options, c.cmds,
                     filteredCmds(c.line, Elements(c.options, c.cmds)),
                     autoCompleterFormatter(c.line, c.options, c.cmds))>>
    /\ UNCHANGED <<storeVars, fsVars, otherVars>>

(* index.js autoCompleterFormatter(line, cmds) *)
FormatJs ==
    /\ LastCall.op = "input"
    /\ LET c == LastCall
       IN log' = <<FormatCall("format.js", c.line, c.options, c.cmds,
                     filteredCmds(c.line, c.cmds),
                     autoCompleterFormatterJs(c.line, c.options, c.cmds))>>
    /\ UNCHANGED <<storeVars, fsVars, otherVars>>

NextFormat == Format \/ FormatJs

SpecFormat == InitFormat /\ [][NextFormat]_vars

----------------------------------------------------------------------------
(* DefaultHistory, the context-keyed store with a file, in its two         *)
(* versions: DefaultHistory.js ("DefaultJs") and unnamed/part_006          *)
(* ("DefaultBackup"). A file with a list holds {histories: {A: list}}.     *)

Parsed(content) ==
    [histories |-> Put(NoContexts, "A", content.history),
     historyIndexes |-> Put(NoContexts, "A", Len(content.history))]

(* DefaultHistory.js load: the rename of a corrupted file is commented out *)
defaultLoad(hf, hs, is, cfg, fs, cor) ==
    IF ~cfg.save \/ hf = NoFile
    THEN [histories |-> hs, historyIndexes |-> is, files |-> fs,
          corrupted |-> cor, io |-> <<>>, failed |-> FALSE]
    ELSE IF fs[hf].kind = "absent"
    THEN [histories |-> hs, historyIndexes |-> is, files |-> fs,
          corrupted |-> cor, io |-> <<"existsSync">>, failed |-> FALSE]
    ELSE IF fs[hf].kind = "list"
    THEN [histories |-> Parsed(fs[hf]).histories,
          historyIndexes |-> Parsed(fs[hf]).historyIndexes, files |-> fs,
          corrupted |-> cor, io |-> <<"existsSync", "readFileSync">>,
          failed |-> FALSE]
    ELSE IF fs[hf].kind = "nokey"
    THEN [histories |-> hs, historyIndexes |-> is, files |-> fs,
          corrupted |-> cor, io |-> <<"existsSync", "readFileSync">>,
          failed |-> FALSE]
    ELSE [histories |-> NoContexts, historyIndexes |-> NoContexts,
          files |-> fs, corrupted |-> cor,
          io |-> <<"existsSync", "readFileSync">>, failed |-> TRUE]

(* part_006 load: the corrupted file is renamed; renameOk: renameSync      *)
(* succeeds                                                                *)
defaultLoadBackup(hf, hs, is, cfg, fs, cor, renameOk) ==
    LET l == defaultLoad(hf, hs, is, cfg, fs, cor)
    IN IF ~l.failed THEN l
       ELSE [l EXCEPT
               !.files = IF renameOk THEN [fs EXCEPT ![hf] = Absent] ELSE fs,
               !.corrupted = IF renameOk THEN cor \cup {<<hf, fs[hf]>>}
                             ELSE cor,
               !.io = Append(l.io, IF renameOk THEN "renameSync"
                                   ELSE "renameSync throws")]

(* load of the version at hand *)
defaultLoadOf(version, hf, hs, is, cfg, fs, cor, renameOk) ==
    IF version = "DefaultJs" THEN defaultLoad(hf, hs, is, cfg, fs, cor)
    ELSE defaultLoadBackup(hf, hs, is, cfg, fs, cor, renameOk)

DefaultVersions == {"DefaultJs", "DefaultBackup"}

defaultVars == <<history, historyIndex, currentLine, promptVars, process>>

(* new DefaultHistory(config): the path is set and the file loaded when    *)
(* config.save                                                             *)
InitDefault ==
    /\ \E cfg \in ConfigsOver({MaxLimit}, StoreFolders),
          c1 \in InitialContents, version \in DefaultVersions,
          renameOk \in BOOLEAN :
         LET fs == [p \in AllPaths |-> IF p = PathOf(cfg) THEN c1 ELSE Absent]
             hf == IF cfg.save THEN PathOf(cfg) ELSE NoFile
             l == defaultLoadOf(version, hf, NoContexts, NoContexts, cfg, fs,
                                {}, renameOk)
         IN /\ cfg.blacklist = {}
            /\ impl = version
            /\ config = cfg
            /\ historyFile = hf
            /\ histories = l.histories
            /\ historyIndexes = l.historyIndexes
            /\ files = l.files
            /\ corrupted = l.corrupted
            /\ log = <<Call("new", EmptyLine, Undefined, <<>>, l.io, l.failed)>>
    /\ history = <<>>
    /\ historyIndex = 0
    /\ currentLine = EmptyLine
    /\ InitPromptVars([required |-> FALSE, validate |-> FALSE])
    /\ process = "running"

(* add(context, value) while save() returns at once *)
DefaultAdd(context, value) ==
    /\ ~config.save \/ historyFile = NoFile
    /\ LET r == contextAdd(histories, historyIndexes, config, context, value)
       IN /\ histories' = r.histories
          /\ historyIndexes' = r.historyIndexes
    /\ log' = <<Call("add", value, Undefined, <<>>, <<>>, FALSE)>>
    /\ UNCHANGED <<impl, config, historyFile, files, corrupted>>

(* setConfig({key: value}) *)
DefaultSetConfig(key, value) ==
    /\ LET r == fileBackedSetConfig(historyFile, config, key, value)
       IN config' = r.config /\ historyFile' = r.historyFile
    /\ log' = <<Call("setConfig", <<key>>, Undefined, <<>>, <<>>, FALSE)>>
    /\ UNCHANGED <<impl, histories, historyIndexes, files, corrupted>>

DefaultLoad ==
    /\ \E renameOk \in BOOLEAN :
         LET l == defaultLoadOf(impl, historyFile, histories, historyIndexes,
                                config, files, corrupted, renameOk)
         IN /\ histories' = l.histories
            /\ historyIndexes' = l.historyIndexes
            /\ files' = l.files
            /\ corrupted' = l.corrupted
            /\ log' = <<Call("load", EmptyLine, Undefined, <<>>, l.io,
                             l.failed)>>
    /\ UNCHANGED <<impl, config, historyFile>>

NextDefault ==
    \/ \E context \in Contexts, value \in Lines :
          DefaultAdd(context, value) /\ UNCHANGED defaultVars
    \/ \E flag \in BOOLEAN :
          DefaultSetConfig("save", flag) /\ UNCHANGED defaultVars
    \/ \E folder \in StoreFolders :
          DefaultSetConfig("folder", folder) /\ UNCHANGED defaultVars
    \/ DefaultLoad /\ UNCHANGED defaultVars

SpecDefault == InitDefault /\ [][NextDefault]_vars

(* The stores that have a clear: the context-keyed EphemeralHistory.js and *)
(* the single-context EphemeralHistory.ts.                                 *)

ContextCall(op, context, arg, ret, list) ==
    [op |-> op, context |-> context, arg |-> arg, ret |-> ret, list |-> list]

singleVars == <<impl, history, historyIndex, currentLine, config,
                historyFile, files, corrupted, promptVars, process>>

InitContexts ==
    \E cfg \in ConfigsOver(Limits, StoreFolders) :
        /\ cfg.save = FALSE
        /\ \/ /\ impl = "EphemeralJs"
              /\ historyIndex = 0
              /\ log = <<ContextCall("new", "", EmptyLine, Undefined, <<>>)>>
           \/ /\ impl = "Ephemeral"
              /\ historyIndex = ephemeralNew(cfg).historyIndex
              /\ log = <<Call("new", EmptyLine, Undefined, <<>>, <<>>, FALSE)>>
        /\ history = <<>>
        /\ currentLine = EmptyLine
        /\ config = cfg
        /\ historyFile = NoFile
        /\ files = [p \in AllPaths |-> Absent]
        /\ corrupted = {}
        /\ NoPrompt

(* the log keeps the call before the last one as well *)
ContextRecord(call) == log' = <<LastCall, call>>

ContextInit(context) ==
    /\ impl = "EphemeralJs"
    /\ LET r == init(histories, historyIndexes, context)
       IN /\ histories' = r.histories
          /\ historyIndexes' = r.historyIndexes
    /\ ContextRecord(ContextCall("init", context, EmptyLine, Undefined,
                                 <<>>))
    /\ UNCHANGED singleVars

ContextAdd(context, value) ==
    /\ impl = "EphemeralJs"
    /\ LET r == contextAdd(histories, historyIndexes, config, context, value)
       IN /\ histories' = r.histories
          /\ historyIndexes' = r.historyIndexes
    /\ ContextRecord(ContextCall("add", context, value, Undefined, <<>>))
    /\ UNCHANGED singleVars

ContextGetPrevious(context) ==
    /\ impl = "EphemeralJs"
    /\ LET r == contextGetPrevious(histories, historyIndexes, context)
       IN /\ histories' = r.histories
          /\ historyIndexes' = r.historyIndexes
          /\ ContextRecord(ContextCall("getPrevious", context, EmptyLine,
                                       r.ret, <<>>))
    /\ UNCHANGED singleVars

ContextGetNext(context) ==
    /\ impl = "EphemeralJs"
    /\ LET r == contextGetNext(histories, historyIndexes, context)
       IN /\ histories' = r.histories
          /\ historyIndexes' = r.historyIndexes
          /\ ContextRecord(ContextCall("getNext", context, EmptyLine,
                                       r.ret, <<>>))
    /\ UNCHANGED singleVars

ContextGetAll(context) ==
    /\ impl = "EphemeralJs"
    /\ LET r == contextGetAll(histories, historyIndexes, context)
       IN /\ histories' = r.histories
          /\ historyIndexes' = r.historyIndexes
          /\ ContextRecord(ContextCall("getAll", context, EmptyLine,
                                       Undefined, r.list))
    /\ UNCHANGED singleVars

ContextClear(context) ==
    /\ impl = "EphemeralJs"
    /\ LET r == clear(histories, historyIndexes, context)
       IN /\ histories' = r.histories
          /\ historyIndexes' = r.historyIndexes
    /\ ContextRecord(ContextCall("clear", context, EmptyLine, Undefined,
                                 <<>>))
    /\ UNCHANGED singleVars

ContextClearAll ==
    /\ impl = "EphemeralJs"
    /\ histories' = clearAll.histories
    /\ historyIndexes' = clearAll.historyIndexes
    /\ ContextRecord(ContextCall("clearAll", "", EmptyLine, Undefined,
                                 <<>>))
    /\ UNCHANGED singleVars

NextContexts ==
    \/ \E c \in Contexts : ContextInit(c)
    \/ \E c \in Contexts, value \in Lines : ContextAdd(c, value)
    \/ \E c \in Contexts : ContextGetPrevious(c)
    \/ \E c \in Contexts : ContextGetNext(c)
    \/ \E c \in Contexts : ContextGetAll(c)
    \/ \E c \in Contexts : ContextClear(c)
    \/ ContextClearAll
    \/ /\ impl = "Ephemeral"
       /\ \E value \in Lines : Add(value, FALSE)
       /\ UNCHANGED otherVars
    \/ impl = "Ephemeral" /\ GetPrevious(FALSE) /\ UNCHANGED otherVars
    \/ impl = "Ephemeral" /\ Clear(FALSE) /\ UNCHANGED otherVars

SpecContexts == InitContexts /\ [][NextContexts]_vars

----------------------------------------------------------------------------
(* index.ts: the prompt. readline edits rl.line before the key handler     *)
(* runs; the handler returns at once unless the status is idle.            *)

Newline == "\n"

(* if (previousCommand): undefined and "" are falsy *)
Truthy(v) == v # Undefined /\ v # EmptyLine

(* a join without a separator *)
RECURSIVE JoinLines_noSeparator(_)
JoinLines_noSeparator(ls) ==
    IF Len(ls) = 0 THEN EmptyLine
    ELSE (IF ls[1] = Undefined THEN EmptyLine ELSE ls[1])
            \o JoinLines_noSeparator(Tail(ls))

(* [...activeLines, ...inactiveLines].join("\n") *)
RECURSIVE JoinLines(_)
JoinLines(ls) ==
    LET text(x) == IF x = Undefined THEN EmptyLine ELSE x
    IN IF Len(ls) = 0 THEN EmptyLine
       ELSE IF Len(ls) = 1 THEN text(ls[1])
       ELSE text(ls[1]) \o <<Newline>> \o JoinLines(Tail(ls))

Whitespace == {" ", "\t", Newline}

(* str.trim() *)
RECURSIVE TrimStart(_)
TrimStart(s) ==
    IF Len(s) > 0 /\ Head(s) \in Whitespace THEN TrimStart(Tail(s)) ELSE s

RECURSIVE TrimEnd(_)
TrimEnd(s) ==
    IF Len(s) > 0 /\ s[Len(s)] \in Whitespace
    THEN TrimEnd(SubSeq(s, 1, Len(s) - 1)) ELSE s

Trim(s) == TrimEnd(TrimStart(s))

(* !answer.trim() *)
IsBlank(s) == Trim(s) = <<>>

(* activeLines[activeLines.length - 1] = rl.line; [...activeLines]: on an  *)
(* empty array the assignment sets the property -1, which the copy drops   *)
SetLastLine(al, line) ==
    IF Len(al) = 0 THEN al ELSE [al EXCEPT ![Len(al)] = line]

(* historyHandler.add(answer) *)
handlerAdd(value, dirOk, writeOk) ==
    IF impl = "Ephemeral"
    THEN LET r == addEntry(history, historyIndex, config, value)
         IN [history |-> r.history, historyIndex |-> r.historyIndex,
             historyFile |-> historyFile, files |-> files]
    ELSE LET r == fileBackedAdd(historyFile, history, historyIndex, config,
                                files, value, dirOk, writeOk)
         IN [history |-> r.history, historyIndex |-> r.historyIndex,
             historyFile |-> r.historyFile, files |-> r.files]

(* a key event, logged with the line readline holds and the cursor of the  *)
(* history handler once the handler has returned                           *)
KeyEvent(name, line, cursor) == [op |-> name, arg |-> line, cursor |-> cursor]

Key(name, keep) == Record(KeyEvent(name, rlLine', historyIndex'), keep)

(* the handler's return while the status is not idle *)
Ignored(line) ==
    /\ status # "idle"
    /\ rlLine' = line
    /\ UNCHANGED <<promptConfig, status, activeLines, inactiveLines,
                   displayContent, multiLine, pending, answer>>
    /\ UNCHANGED <<storeVars, fsVars>>

(* the last branch of the handler: any key without a branch of its own *)
OtherKey(line) ==
    /\ rlLine' = line
    /\ activeLines' = SetLastLine(activeLines, line)
    /\ displayContent' = NoDisplay
    /\ UNCHANGED <<promptConfig, status, inactiveLines, multiLine, pending,
                   answer>>
    /\ UNCHANGED <<storeVars, fsVars>>

(* a character key, for lines of up to maxLen characters *)
Type(c, keep, maxLen) ==
    /\ status \in {"idle", "loading"}
    /\ Len(rlLine) < maxLen
    /\ LET line == Append(rlLine, c)
       IN Ignored(line) \/ (status = "idle" /\ OtherKey(line))
    /\ Key("char", keep)

TypeChar(c, keep) == Type(c, keep, MaxLineLen)

Backspace(keep) ==
    /\ status \in {"idle", "loading"}
    /\ LET line == IF Len(rlLine) > 0 THEN SubSeq(rlLine, 1, Len(rlLine) - 1)
                   ELSE rlLine
       IN \/ Ignored(line)
          \/ /\ status = "idle"
             /\ IF multiLine /\ Len(activeLines) > 1
                            /\ activeLines[Len(activeLines)] = EmptyLine
                THEN /\ rlLine' = activeLines[Len(activeLines) - 1]
                     /\ IF activeLines[Len(activeLines) - 1] = Undefined
                        THEN UNCHANGED <<activeLines, displayContent>>
                        ELSE /\ activeLines' = SubSeq(activeLines, 1,
                                                      Len(activeLines) - 1)
                             /\ displayContent' = NoDisplay
                     /\ UNCHANGED <<promptConfig, status, inactiveLines,
                                    multiLine, pending, answer>>
                     /\ UNCHANGED <<storeVars, fsVars>>
                ELSE OtherKey(line)
    /\ Key("backspace", keep)

KeyUp(keep) ==
    /\ status \in {"idle", "loading"}
    /\ \/ Ignored(rlLine) /\ Key("up", FALSE)
       \/ /\ status = "idle"
          /\ multiLine
          /\ IF Len(activeLines) > 0
             THEN /\ inactiveLines' =
                        <<activeLines[Len(activeLines)]>> \o inactiveLines
                  /\ activeLines' = SubSeq(activeLines, 1,
                                           Len(activeLines) - 1)
                  /\ displayContent' = NoDisplay
             ELSE UNCHANGED <<activeLines, inactiveLines, displayContent>>
          /\ UNCHANGED <<promptConfig, status, multiLine, rlLine, pending,
                         answer>>
          /\ UNCHANGED <<storeVars, fsVars>>
          /\ Key("up", FALSE)
       \/ /\ status = "idle"
          /\ ~multiLine
          /\ currentLine' = rlLine
          /\ LET r == getPrevious(history, historyIndex)
             IN /\ historyIndex' = r.historyIndex
                /\ IF Truthy(r.ret)
                   THEN /\ activeLines' = <<r.ret>>
                        /\ inactiveLines' = <<>>
                        /\ displayContent' = NoDisplay
                        /\ rlLine' = r.ret
                   ELSE UNCHANGED <<activeLines, inactiveLines,
                                    displayContent, rlLine>>
          /\ UNCHANGED <<promptConfig, status, multiLine, pending, answer>>
          /\ UNCHANGED <<impl, history, config, historyFile, fsVars>>
          /\ Key("up", keep)

KeyDown(keep) ==
    /\ status \in {"idle", "loading"}
    /\ \/ Ignored(rlLine) /\ Key("down", FALSE)
       \/ /\ status = "idle"
          /\ multiLine
          /\ IF Len(inactiveLines) > 0
             THEN /\ activeLines' = Append(activeLines, inactiveLines[1])
                  /\ inactiveLines' = Tail(inactiveLines)
                  /\ displayContent' = NoDisplay
             ELSE UNCHANGED <<activeLines, inactiveLines, displayContent>>
          /\ UNCHANGED <<promptConfig, status, multiLine, rlLine, pending,
                         answer>>
          /\ UNCHANGED <<storeVars, fsVars>>
          /\ Key("down", FALSE)
       \/ /\ status = "idle"
          /\ ~multiLine
          /\ currentLine' = rlLine
          /\ LET r == getNext(history, historyIndex, rlLine)
             IN /\ historyIndex' = r.historyIndex
                /\ IF Truthy(r.ret)
                   THEN /\ activeLines' = <<r.ret>>
                        /\ inactiveLines' = <<>>
                        /\ displayContent' = NoDisplay
                        /\ rlLine' = r.ret
                   ELSE UNCHANGED <<activeLines, inactiveLines,
                                    displayContent, rlLine>>
          /\ UNCHANGED <<promptConfig, status, multiLine, pending, answer>>
          /\ UNCHANGED <<impl, history, config, historyFile, fsVars>>
          /\ Key("down", keep)

(* an acceptance that resolves the prompt without the add *)
Accept_withoutAdd(value) ==
    /\ status' = "done"
    /\ answer' = value
    /\ UNCHANGED <<storeVars, fsVars>>

(* the submission accepted: historyHandler.add, setStatus("done"), done *)
Accept(value) ==
    /\ \E dirOk, writeOk \in BOOLEAN :
         LET r == handlerAdd(value, dirOk, writeOk)
         IN /\ history' = r.history
            /\ historyIndex' = r.historyIndex
            /\ historyFile' = r.historyFile
            /\ files' = r.files
    /\ status' = "done"
    /\ answer' = value
    /\ UNCHANGED <<impl, currentLine, config, corrupted>>

(* a rejection that starts the line anew *)
Reject_dropsText(message) ==
    /\ displayContent' = message
    /\ status' = "idle"
    /\ activeLines' = <<EmptyLine>>
    /\ inactiveLines' = <<>>
    /\ UNCHANGED answer
    /\ UNCHANGED <<storeVars, fsVars>>

(* the submission rejected: the message is displayed, the status idle *)
Reject(message) ==
    /\ displayContent' = message
    /\ status' = "idle"
    /\ UNCHANGED <<activeLines, inactiveLines, answer>>
    /\ UNCHANGED <<storeVars, fsVars>>

(* accessing .length of the last active line throws when there is none *)
NoLastLine(al) == IF Len(al) = 0 THEN TRUE ELSE al[Len(al)] = Undefined

(* Enter, or Meta+Enter when meta; readline empties rl.line on Enter. An   *)
(* answer of up to maxLen characters is submitted.                         *)
EnterKey(meta, keep, maxLen) ==
    /\ status \in {"idle", "loading"}
    /\ LET line == IF meta THEN rlLine ELSE EmptyLine
           value == JoinLines(activeLines \o inactiveLines)
       IN \/ Ignored(line)
          \/ /\ status = "idle"
             /\ multiLine /\ ~meta
             /\ Len(activeLines) + Len(inactiveLines) < MaxPromptLines
             /\ rlLine' = line
             /\ activeLines' = Append(activeLines, EmptyLine)
             /\ displayContent' = NoDisplay
             /\ UNCHANGED <<promptConfig, status, inactiveLines, multiLine,
                            pending, answer>>
             /\ UNCHANGED <<storeVars, fsVars>>
          \/ /\ status = "idle"
             /\ ~(multiLine /\ ~meta)
             /\ NoLastLine(activeLines)
             /\ rlLine' = line
             /\ UNCHANGED <<promptConfig, status, activeLines, inactiveLines,
                            displayContent, multiLine, pending, answer>>
             /\ UNCHANGED <<storeVars, fsVars>>
          \/ /\ status = "idle"
             /\ ~(multiLine /\ ~meta)
             /\ ~NoLastLine(activeLines)
             /\ Len(value) <= maxLen
             /\ rlLine' = activeLines[Len(activeLines)]
             /\ IF promptConfig.required /\ IsBlank(value)
                THEN Reject("You must provide a value")
                     /\ UNCHANGED pending
                ELSE IF promptConfig.validate
                THEN /\ status' = "loading"
                     /\ pending' = <<value>>
                     /\ UNCHANGED <<activeLines, inactiveLines,
                                    displayContent, answer>>
                     /\ UNCHANGED <<storeVars, fsVars>>
                ELSE /\ Accept(value)
                     /\ UNCHANGED <<activeLines, inactiveLines,
                                    displayContent, pending>>
             /\ UNCHANGED <<promptConfig, multiLine>>
    /\ Key(IF meta THEN "meta+enter" ELSE "enter", keep)

KeyEnter(meta, keep) == EnterKey(meta, keep, MaxAnswerLen)

(* await validate(answer) settles: true, false, a message, or a throw *)
Verdicts == {"true", "false", "message", "throw"}

ValidateSettles(verdict, keep) ==
    /\ pending # <<>>
    /\ pending' = <<>>
    /\ IF verdict = "true"
       THEN /\ Accept(pending[1])
            /\ UNCHANGED <<activeLines, inactiveLines, displayContent>>
       ELSE Reject(CASE verdict = "message" -> "message"
                     [] verdict = "throw" -> "Validation error"
                     [] OTHER -> "You must provide a valid value")
    /\ UNCHANGED <<promptConfig, multiLine, rlLine>>
    /\ Key("validate:" \o verdict, keep)

(* Meta+M toggles the multi-line mode *)
KeyMetaM(keep) ==
    /\ status \in {"idle", "loading"}
    /\ \/ Ignored(rlLine)
       \/ /\ status = "idle"
          /\ IF multiLine
             THEN /\ multiLine' = FALSE
                  /\ activeLines' = <<At(activeLines, 0)>>
                  /\ inactiveLines' = <<>>
                  /\ displayContent' = NoDisplay
             ELSE /\ multiLine' = TRUE
                  /\ UNCHANGED <<activeLines, inactiveLines, displayContent>>
          /\ UNCHANGED <<promptConfig, status, rlLine, pending, answer>>
          /\ UNCHANGED <<storeVars, fsVars>>
    /\ Key("meta+m", keep)

(* a key event that reaches the handler after the prompt resolved *)
KeyNames == {"char", "backspace", "up", "down", "enter", "meta+enter",
             "meta+m", "tab", "shift+right"}

DoneKey(name, keep) ==
    /\ status = "done"
    /\ Ignored(rlLine)
    /\ Key(name, keep)

(* the caller opens the next prompt on the same history handler *)
NewPrompt(keep) ==
    /\ status = "done"
    /\ status' = "idle"
    /\ activeLines' = <<EmptyLine>>
    /\ inactiveLines' = <<>>
    /\ displayContent' = NoDisplay
    /\ multiLine' = FALSE
    /\ rlLine' = EmptyLine
    /\ pending' = <<>>
    /\ answer' = Undefined
    /\ UNCHANGED promptConfig
    /\ UNCHANGED <<storeVars, fsVars>>
    /\ Key("prompt", keep)

(* The prompt on defaultHistory, the EphemeralHistory the module creates.  *)
(* The log holds the last key that did not navigate the history and the    *)
(* Up and Down keys that navigated it since.                               *)
InitPrompt ==
    /\ \E cfg \in ConfigsOver({MaxLimit}, StoreFolders) :
         /\ cfg.save = FALSE
         /\ cfg.blacklist = {}
         /\ impl = "Ephemeral"
         /\ historyIndex = ephemeralNew(cfg).historyIndex
         /\ config = cfg
    /\ history = <<>>
    /\ currentLine = EmptyLine
    /\ historyFile = NoFile
    /\ files = [p \in AllPaths |-> Absent]
    /\ corrupted = {}
    /\ log = <<KeyEvent("prompt", EmptyLine, historyIndex)>>
    /\ \E pc \in PromptConfigs : InitPromptVars(pc)
    /\ histories = NoContexts
    /\ historyIndexes = NoContexts
    /\ process = "running"

NextPrompt ==
    \/ \E c \in Chars : TypeChar(c, FALSE) /\ UNCHANGED outerVars
    \/ Backspace(FALSE) /\ UNCHANGED outerVars
    \/ Len(log) <= MaxKeys /\ KeyUp(TRUE) /\ UNCHANGED outerVars
    \/ Len(log) <= MaxKeys /\ KeyDown(TRUE) /\ UNCHANGED outerVars
    \/ \E meta \in BOOLEAN : KeyEnter(meta, FALSE) /\ UNCHANGED outerVars
    \/ \E verdict \in Verdicts :
          ValidateSettles(verdict, FALSE) /\ UNCHANGED outerVars
    \/ KeyMetaM(FALSE) /\ UNCHANGED outerVars
    \/ \E name \in KeyNames : DoneKey(name, FALSE) /\ UNCHANGED outerVars
    \/ NewPrompt(FALSE) /\ UNCHANGED outerVars

SpecPrompt == InitPrompt /\ [][NextPrompt]_vars

(* One prompt with answers of several lines, on an empty history: every    *)
(* key of the handler, one character key, and the keys that arrive after   *)
(* the prompt resolved.                                                    *)
NextMultiLine ==
    \/ TypeChar("a", FALSE) /\ UNCHANGED outerVars
    \/ Backspace(FALSE) /\ UNCHANGED outerVars
    \/ KeyUp(FALSE) /\ UNCHANGED outerVars
    \/ KeyDown(FALSE) /\ UNCHANGED outerVars
    \/ \E meta \in BOOLEAN :
          EnterKey(meta, FALSE, MaxMultiAnswer) /\ UNCHANGED outerVars
    \/ \E verdict \in Verdicts :
          ValidateSettles(verdict, FALSE) /\ UNCHANGED outerVars
    \/ KeyMetaM(FALSE) /\ UNCHANGED outerVars
    \/ \E name \in KeyNames : DoneKey(name, FALSE) /\ UNCHANGED outerVars

SpecMultiLine == InitPrompt /\ [][NextMultiLine]_vars

PromptTypeOK ==
    /\ status \in {"idle", "loading", "done"}
    /\ multiLine \in BOOLEAN
    /\ Len(pending) <= 1
    /\ Len(rlLine) <= MaxAnswerLen
    /\ \A i \in 1..Len(history) : Len(history[i]) <= MaxAnswerLen
    /\ Len(activeLines) + Len(inactiveLines) <= MaxPromptLines

----------------------------------------------------------------------------
(* index.ts: the Tab key. The supplier of the candidates is no supplier,   *)
(* an array, a function that returns the list or throws ("function"), or a *)
(* function whose promise settles after later key events ("async"). A      *)
(* candidate list of the prompt has no configuration object.               *)

(* a list of the elements of S, each once *)
RECURSIVE ListOf(_)
ListOf(S) ==
    IF S = {} THEN <<>>
    ELSE LET x == CHOOSE x \in S : TRUE IN <<x>> \o ListOf(S \ {x})

(* the lists a prompt is configured with: no candidate twice, and one      *)
(* order for each set of candidates                                        *)
PromptLists ==
    {ListOf(S) : S \in {T \in SUBSET Candidates : Cardinality(T) <= MaxCands}}

Suppliers(kinds) ==
    {[kind |-> "none", cmds |-> <<>>]} \cup [kind : kinds, cmds : PromptLists]

(* autoCompleter(line): the formatted matches, or the supplier's failure *)
autoCompleter(supplier, line, ok) ==
    IF supplier.kind = "none" THEN [failed |-> FALSE, matches |-> <<>>]
    ELSE IF supplier.kind = "array"
    THEN [failed |-> FALSE,
          matches |-> autoCompleterFormatter(line, "absent",
                          Starting(supplier.cmds, line))]
    ELSE IF ok
    THEN [failed |-> FALSE,
          matches |-> autoCompleterFormatter(line, "absent", supplier.cmds)]
    ELSE [failed |-> TRUE, matches |-> <<>>]

TabEvent(name, line, cursor, partial, r) ==
    [op |-> name, arg |-> line, cursor |-> cursor, partial |-> partial,
     matches |-> r.matches, failed |-> r.failed]

(* the handler with a single match shown but not put into the line *)
ShowMatches_keepsLine(matches, al, il, line) ==
    /\ activeLines' = al
    /\ inactiveLines' = il
    /\ displayContent' = IF Len(matches) = 0 THEN "No available commands"
                         ELSE IF Len(matches) = 1 THEN NoDisplay
                         ELSE "Available commands:"
    /\ rlLine' = line

(* the handler that empties the line when nothing matches *)
ShowMatches_clearsLine(matches, al, il, line) ==
    IF Len(matches) = 0
    THEN /\ activeLines' = <<EmptyLine>>
         /\ inactiveLines' = <<>>
         /\ displayContent' = "No available commands"
         /\ rlLine' = EmptyLine
    ELSE IF Len(matches) = 1
    THEN /\ activeLines' = <<matches[1]>>
         /\ inactiveLines' = <<>>
         /\ displayContent' = NoDisplay
         /\ rlLine' = matches[1]
    ELSE /\ activeLines' = al
         /\ inactiveLines' = il
         /\ displayContent' = "Available commands:"
         /\ rlLine' = line

(* what the handler does with the matches; al and il are the activeLines   *)
(* and inactiveLines of the render the handler was made in, line is        *)
(* rl.line as the handler finds it                                         *)
ShowMatches(matches, al, il, line) ==
    IF Len(matches) = 0
    THEN /\ activeLines' = al
         /\ inactiveLines' = il
         /\ displayContent' = "No available commands"
         /\ rlLine' = line
    ELSE IF Len(matches) = 1
    THEN /\ activeLines' = <<matches[1]>>
         /\ inactiveLines' = <<>>
         /\ displayContent' = NoDisplay
         /\ rlLine' = matches[1]
    ELSE /\ activeLines' = al
         /\ inactiveLines' = il
         /\ displayContent' = "Available commands:"
         /\ rlLine' = line

(* a rejection that leaves the key handler is handled by nobody: the       *)
(* runtime goes on or ends the process                                     *)
Unhandled == process' \in {"running", "exited"}

(* Tab with a supplier whose result is there before the next key event *)
KeyTab(keep) ==
    /\ process = "running"
    /\ status \in {"idle", "loading"}
    /\ promptConfig.autoCompletion.kind # "async"
    /\ \/ /\ Ignored(rlLine)
          /\ UNCHANGED process
          /\ Key("ignored", keep)
       \/ /\ status = "idle"
          /\ ~NoLastLine(activeLines)
          /\ \E ok \in BOOLEAN :
               LET value == activeLines[Len(activeLines)]
                   r == autoCompleter(promptConfig.autoCompletion,
                                      Trim(value), ok)
               IN /\ IF r.failed
                     THEN /\ rlLine' = value
                          /\ UNCHANGED <<activeLines, inactiveLines,
                                         displayContent>>
                          /\ Unhandled
                     ELSE /\ ShowMatches(r.matches, activeLines,
                                         inactiveLines, value)
                          /\ UNCHANGED process
                  /\ Record(TabEvent("tab", rlLine', historyIndex,
                                     Trim(value), r), keep)
          /\ UNCHANGED <<promptConfig, status, multiLine, pending, answer>>
          /\ UNCHANGED <<storeVars, fsVars>>

(* The prompt with a supplier of candidates: characters, Backspace, Tab    *)
(* and Enter on one line. The log holds the last key, and the key before   *)
(* it when the last key is Enter.                                          *)

TypedChars == CompletionChars \cup {" "}

InitTab(kinds) ==
    /\ \E cfg \in ConfigsOver({MaxLimit}, StoreFolders) :
         /\ cfg.save = FALSE
         /\ cfg.blacklist = {}
         /\ impl = "Ephemeral"
         /\ historyIndex = ephemeralNew(cfg).historyIndex
         /\ config = cfg
    /\ history = <<>>
    /\ currentLine = EmptyLine
    /\ historyFile = NoFile
    /\ files = [p \in AllPaths |-> Absent]
    /\ corrupted = {}
    /\ log = <<KeyEvent("prompt", EmptyLine, historyIndex)>>
    /\ \E supplier \in Suppliers(kinds) :
         InitPromptVars([required |-> FALSE, validate |-> FALSE,
                         autoCompletion |-> supplier])
    /\ histories = NoContexts
    /\ historyIndexes = NoContexts
    /\ process = "running"

Running(key) ==
    /\ process = "running"
    /\ key
    /\ UNCHANGED outerVars

NextTab ==
    \/ \E c \in TypedChars : Running(Type(c, FALSE, MaxPartial))
    \/ Running(Backspace(FALSE))
    \/ KeyTab(FALSE) /\ UNCHANGED contextVars
    \/ Running(status = "idle" /\ EnterKey(FALSE, TRUE, MaxCandLen))

SpecTab == InitTab({"array", "function"}) /\ [][NextTab]_vars

(* index.ts: the Shift+Right key                                           *)

(* helpers.ts, the number of characters of `${n}` *)
RECURSIVE Digits(_)
Digits(n) == IF n < 10 THEN 1 ELSE 1 + Digits(n \div 10)

(* helpers.ts formatIndex(i, limit): " ".repeat(len - `${i}`.length) + i;  *)
(* repeat throws a RangeError on a negative count                          *)
formatIndex(i, limit) ==
    LET len == Digits(IF limit = 0 THEN 100 ELSE limit)
    IN IF len - Digits(i) < 0
       THEN [threw |-> TRUE, index |-> i, pad |-> 0]
       ELSE [threw |-> FALSE, index |-> i, pad |-> len - Digits(i)]

(* the lines under "History:": the formatted index and the entry *)
historyDisplay(entries, limit) ==
    [k \in 1..Len(entries) |->
        [index |-> formatIndex(k - 1, limit), entry |-> entries[k]]]

ShiftRightEvent(line, cursor, shown, failed) ==
    [op |-> "shift+right", arg |-> line, cursor |-> cursor, shown |-> shown,
     failed |-> failed]

(* Shift+Right on an idle prompt: the entries of getAll are listed, each   *)
(* with its index formatted to the width of the limit; a throw of          *)
(* formatIndex leaves the handler before setLines                          *)
KeyShiftRight(keep) ==
    /\ process = "running"
    /\ status = "idle"
    /\ LET historyEntries == getAll(history).list
           shown == historyDisplay(historyEntries, config.limit)
           threw == \E k \in 1..Len(shown) : shown[k].index.threw
       IN /\ IF threw
             THEN /\ UNCHANGED displayContent
                  /\ Unhandled
             ELSE /\ displayContent' = "History:"
                  /\ UNCHANGED process
          /\ Record(ShiftRightEvent(rlLine, historyIndex,
                                    IF threw THEN <<>> ELSE shown, threw),
                    keep)
    /\ UNCHANGED <<promptConfig, status, activeLines, inactiveLines,
                   multiLine, rlLine, pending, answer>>
    /\ UNCHANGED <<storeVars, fsVars>>

(* the list a.b.a... of n entries *)
Alternating(n) == [k \in 1..n |-> IF k % 2 = 1 THEN <<"a">> ELSE <<"b">>]

ShownLimits == (1..MaxShown) \cup {100}

(* The prompt on a FileBackedHistory that loaded a file of up to MaxShown  *)
(* entries, written under any limit: Shift+Right, and the application's    *)
(* add and setConfig({limit}) on the handler.                              *)
InitShiftRight ==
    /\ \E cfg \in ConfigsOver(ShownLimits, StoreFolders), n \in 0..MaxShown :
         LET fs == [p \in AllPaths |->
                      IF p = PathOf(cfg) THEN Stringify(Alternating(n))
                      ELSE Absent]
             new == fileBackedNew(cfg, fs, {}, TRUE)
         IN /\ cfg.save
            /\ cfg.blacklist = {}
            /\ impl = "FileBacked"
            /\ history = new.history
            /\ historyIndex = new.historyIndex
            /\ currentLine = new.currentLine
            /\ config = new.config
            /\ historyFile = new.historyFile
            /\ files = new.files
            /\ corrupted = new.corrupted
    /\ log = <<KeyEvent("prompt", EmptyLine, historyIndex)>>
    /\ NoPrompt

NextShiftRight ==
    \/ KeyShiftRight(FALSE) /\ UNCHANGED contextVars
    \/ /\ process = "running"
       /\ Len(history) < MaxShown
       /\ \E value \in Lines : Add(value, FALSE)
       /\ UNCHANGED otherVars
    \/ /\ process = "running"
       /\ \E limit \in ShownLimits : SetConfigTo("limit", limit, FALSE)
       /\ UNCHANGED otherVars

SpecShiftRight == InitShiftRight /\ [][NextShiftRight]_vars

(* The prompt with a supplier whose promise settles after later key        *)
(* events: the handler stops at its await, the status stays idle, so the   *)
(* keys that follow are handled, and the rest of the handler runs when the *)
(* promise settles, with the activeLines and inactiveLines of the render   *)
(* it was made in. pending holds the handlers stopped at the await, the    *)
(* log every event since the prompt was made.                              *)

Request(partial, al, il, at) ==
    [partial |-> partial, activeLines |-> al, inactiveLines |-> il,
     at |-> at]

RemoveAt(seq, i) == SubSeq(seq, 1, i - 1) \o SubSeq(seq, i + 1, Len(seq))

(* the tab branch up to its await *)
TabStart ==
    /\ status = "idle"
    /\ promptConfig.autoCompletion.kind = "async"
    /\ ~NoLastLine(activeLines)
    /\ LET value == activeLines[Len(activeLines)]
       IN /\ rlLine' = value
          /\ pending' = Append(pending,
                               Request(Trim(value), activeLines,
                                       inactiveLines, Len(log) + 1))
          /\ Record([op |-> "tab.start", arg |-> value,
                     cursor |-> historyIndex, partial |-> Trim(value)],
                    TRUE)
    /\ UNCHANGED <<promptConfig, status, activeLines, inactiveLines,
                   displayContent, multiLine, answer>>
    /\ UNCHANGED <<storeVars, fsVars>>

(* the tab branch after its await, for the i-th of the stopped handlers *)
TabSettle(i) ==
    /\ i \in 1..Len(pending)
    /\ pending' = RemoveAt(pending, i)
    /\ \E ok \in BOOLEAN :
         LET req == pending[i]
             r == autoCompleter(promptConfig.autoCompletion, req.partial, ok)
         IN /\ IF r.failed
               THEN /\ UNCHANGED <<activeLines, inactiveLines,
                                   displayContent, rlLine>>
                    /\ Unhandled
               ELSE /\ ShowMatches(r.matches, req.activeLines,
                                   req.inactiveLines, rlLine)
                    /\ UNCHANGED process
            /\ Record([op |-> "tab.settle", arg |-> rlLine',
                       cursor |-> historyIndex, partial |-> req.partial,
                       at |-> req.at, matches |-> r.matches,
                       failed |-> r.failed], TRUE)
    /\ UNCHANGED <<promptConfig, status, multiLine, answer>>
    /\ UNCHANGED <<storeVars, fsVars>>

(* the lists an awaited supplier resolves to *)
AsyncLists == {ListOf(S) : S \in SUBSET {<<"a">>, <<"a", ".">>}}

InitTabAsync ==
    /\ InitTab({"async"})
    /\ promptConfig.autoCompletion.kind = "async"
    /\ promptConfig.autoCompletion.cmds \in AsyncLists

Awaited(key) == Running(Len(log) <= MaxAsyncKeys /\ key)

NextTabAsync ==
    \/ \E c \in CompletionChars : Awaited(Type(c, TRUE, MaxPartial))
    \/ Awaited(Backspace(TRUE))
    \/ Awaited(TabStart)
    \/ \E i \in 1..MaxAsyncKeys :
          process = "running" /\ TabSettle(i) /\ UNCHANGED contextVars

SpecTabAsync == InitTabAsync /\ [][NextTabAsync]_vars

(* The prompt of index.js on the context-keyed store: its value state is   *)
(* the one active line, its errorMsg the displayed content, its context    *)
(* "_default". No default value is configured.                             *)

DefaultContext == "_default"

jsVars == <<impl, history, historyIndex, currentLine, config, historyFile,
            files, corrupted, process>>

(* any key without a branch of its own: the value follows rl.line and the  *)
(* error is cleared                                                        *)
TypeJs(c) ==
    /\ status = "idle"
    /\ Len(rlLine) < MaxPartial
    /\ rlLine' = Append(rlLine, c)
    /\ activeLines' = <<rlLine'>>
    /\ displayContent' = NoDisplay
    /\ UNCHANGED <<promptConfig, status, inactiveLines, multiLine, pending,
                   answer, contextVars>>
    /\ Key("char", FALSE)

(* done(answer) after historyHandler.add(context, answer) *)
AcceptJs(value) ==
    /\ LET r == contextAdd(histories, historyIndexes, config, DefaultContext,
                           value)
       IN /\ histories' = r.histories
          /\ historyIndexes' = r.historyIndexes
    /\ status' = "done"
    /\ displayContent' = NoDisplay
    /\ answer' = value
    /\ UNCHANGED activeLines

(* setError(message); rl.line = value *)
RejectJs(message) ==
    /\ displayContent' = message
    /\ status' = "idle"
    /\ rlLine' = activeLines[1]
    /\ UNCHANGED <<activeLines, answer, contextVars>>

(* the enter branch up to the validator's answer *)
EnterJs ==
    /\ status = "idle"
    /\ LET value == activeLines[1]
       IN IF promptConfig.required /\ value = EmptyLine
          THEN RejectJs("You must provide a value") /\ UNCHANGED pending
          ELSE IF promptConfig.validate
          THEN /\ status' = "loading"
               /\ pending' = <<value>>
               /\ rlLine' = EmptyLine
               /\ UNCHANGED <<activeLines, displayContent, answer,
                              contextVars>>
          ELSE /\ AcceptJs(value)
               /\ rlLine' = EmptyLine
               /\ UNCHANGED pending
    /\ UNCHANGED <<promptConfig, inactiveLines, multiLine>>
    /\ Key("enter", FALSE)

(* await config.validate(answer) settles *)
ValidateSettlesJs(verdict) ==
    /\ pending # <<>>
    /\ pending' = <<>>
    /\ IF verdict = "true"
       THEN AcceptJs(pending[1]) /\ UNCHANGED rlLine
       ELSE RejectJs(CASE verdict = "message" -> "message"
                       [] verdict = "throw" -> "Validation error"
                       [] OTHER -> "You must provide a valid value")
    /\ UNCHANGED <<promptConfig, inactiveLines, multiLine>>
    /\ Key("validate:" \o verdict, FALSE)

InitEnterJs ==
    /\ \E cfg \in ConfigsOver({MaxLimit}, StoreFolders) :
         /\ cfg.save = FALSE
         /\ cfg.blacklist = {}
         /\ config = cfg
    /\ impl = "EphemeralJs"
    /\ history = <<>>
    /\ historyIndex = 0
    /\ currentLine = EmptyLine
    /\ historyFile = NoFile
    /\ files = [p \in AllPaths |-> Absent]
    /\ corrupted = {}
    /\ log = <<KeyEvent("prompt", EmptyLine, historyIndex)>>
    /\ \E pc \in PromptConfigs : InitPromptVars(pc)
    /\ LET r == init(NoContexts, NoContexts, DefaultContext)
       IN /\ histories = r.histories
          /\ historyIndexes = r.historyIndexes
    /\ process = "running"

NextEnterJs ==
    \/ \E c \in {"a", " "} : UNCHANGED jsVars /\ TypeJs(c)
    \/ UNCHANGED jsVars /\ EnterJs
    \/ \E verdict \in Verdicts : UNCHANGED jsVars /\ ValidateSettlesJs(verdict)

SpecEnterJs == InitEnterJs /\ [][NextEnterJs]_vars

----------------------------------------------------------------------------
(* Properties of the history stores                                        *)

IsAdd(call) == call.op = "add"

(* the lines passed to add so far, in call order (log holding every call) *)
AddedLines ==
    LET adds == SelectSeq(log, IsAdd)
    IN [i \in 1..Len(adds) |-> adds[i].arg]

(* lines[1..n] without the blacklisted lines and without the lines equal   *)
(* to the kept line just before them                                       *)
RECURSIVE KeptUpTo(_, _, _)
KeptUpTo(lines, blacklist, n) ==
    IF n = 0 THEN <<>>
    ELSE LET prev == KeptUpTo(lines, blacklist, n - 1)
             x == lines[n]
         IN IF x \in blacklist THEN prev
            ELSE IF Len(prev) > 0 /\ prev[Len(prev)] = x THEN prev
            ELSE Append(prev, x)

Kept == KeptUpTo(AddedLines, config.blacklist, Len(AddedLines))

LastN(q, n) == IF Len(q) <= n THEN q ELSE SubSeq(q, Len(q) - n + 1, Len(q))

(* C1: under SpecAdd (capacity fixed at construction, history empty at     *)
(* first, add and navigation calls only) the history never holds more than *)
(* config.limit entries and equals the last config.limit lines of the      *)
(* added lines with blacklisted lines and immediate repeats dropped.       *)
C1_CapacityInvariant ==
    /\ Len(history) <= config.limit
    /\ history = LastN(Kept, config.limit)

(* an eviction has happened and some added line was dropped *)
C1_Witness ==
    /\ Len(Kept) > config.limit
    /\ Len(Kept) < Len(AddedLines)
    /\ Len(history) = config.limit

(* C2: the cursor is within 0..entries.length in every reachable state *)
C2_CursorInRange == 0 <= historyIndex /\ historyIndex <= Len(history)

(* C3: after add calls on an empty history no two adjacent entries are     *)
(* equal, an added line that is not blacklisted is the last entry even if  *)
(* an earlier entry equals it, add x, add x gives [x] and add x, add y,    *)
(* add x gives [x, y, x] when the capacity allows three entries.           *)
C3_DuplicateSuppression ==
    /\ NoAdjacentDuplicates(history)
    /\ (LastCall.op = "add" /\ LastCall.arg \notin config.blacklist)
          => (Len(history) > 0 /\ Last(history) = LastCall.arg)
    /\ \A x, y \in Lines \ config.blacklist :
          /\ AddedLines = <<x, x>> => history = <<x>>
          /\ (x # y /\ AddedLines = <<x, y, x>> /\ config.limit >= 3)
                => history = <<x, y, x>>

C3_Witness ==
    AddedLines = <<<<"a">>, <<"b">>, <<"a">>>>
        /\ history = <<<<"a">>, <<"b">>, <<"a">>>>

(* C4 as claimed: every call to add ends with the cursor at                *)
(* entries.length. Stated for cursors that are not negative, so that a     *)
(* violation does not rest on the cursor a new EphemeralHistory starts at. *)
C4_AddEndsAtDraft ==
    (LastCall.op = "add" /\ historyIndex >= 0) => historyIndex = Len(history)

(* C4 amended: every call to add of a line that is not blacklisted ends    *)
(* with the cursor at entries.length, wherever navigation left it and also *)
(* when the line is suppressed as an immediate duplicate.                  *)
C4_AddEndsAtDraftUnlessBlacklisted ==
    (LastCall.op = "add" /\ LastCall.arg \notin config.blacklist)
        => historyIndex = Len(history)

(* add x, getPrevious, add x: the second add is suppressed *)
C4_Witness ==
    /\ Len(log) = 4
    /\ log[2].op = "add" /\ log[3].op = "getPrevious" /\ log[4].op = "add"
    /\ log[3].ret = log[4].arg
    /\ history = <<log[4].arg>>
    /\ historyIndex = 1

(* C5: add of a blacklisted line leaves the entries unchanged and, with    *)
(* persistence enabled, makes no file system call and changes no file.     *)
C5_BlacklistedAddIsNoOp ==
    [][(LastCall'.op = "add" /\ LastCall'.arg \in config.blacklist)
         => /\ history' = history
            /\ files' = files
            /\ LastCall'.io = <<>>]_vars

C5_Witness ==
    /\ impl = "FileBacked" /\ config.save
    /\ LastCall.op = "add" /\ LastCall.arg \in config.blacklist
    /\ Len(history) > 0

(* C6: getPrevious at a cursor above 0 moves the cursor down by one and    *)
(* returns the entry there; at cursor 0 it returns undefined and changes   *)
(* neither the cursor nor the entries.                                     *)
C6_GetPrevious ==
    [][LastCall'.op = "getPrevious"
         => /\ history' = history
            /\ historyIndex > 0
                 => /\ historyIndex' = historyIndex - 1
                    /\ historyIndex' < Len(history)
                    /\ LastCall'.ret = history[historyIndex' + 1]
            /\ historyIndex = 0
                 => /\ historyIndex' = 0
                    /\ LastCall'.ret = Undefined]_vars

C6_Witness ==
    /\ LastCall.op = "getPrevious"
    /\ LastCall.ret # Undefined
    /\ historyIndex = 0
    /\ Len(history) >= 2

(* C7: getNext below the last entry moves the cursor up by one and returns *)
(* the entry there; at the last entry it moves the cursor to               *)
(* entries.length and returns the saved draft line; at entries.length or   *)
(* beyond, and on an empty freshly constructed history, it returns         *)
(* undefined and changes nothing.                                          *)
C7_GetNext ==
    [][LastCall'.op = "getNext"
         => /\ history' = history
            /\ historyIndex < Len(history) - 1
                 => /\ historyIndex' = historyIndex + 1
                    /\ LastCall'.ret = At(history, historyIndex')
            /\ historyIndex = Len(history) - 1
                 => /\ historyIndex' = Len(history)
                    /\ LastCall'.ret = currentLine
            /\ (historyIndex >= Len(history)
                   \/ (LastCall.op = "new" /\ history = <<>>))
                 => /\ historyIndex' = historyIndex
                    /\ LastCall'.ret = Undefined]_vars

(* C8: from the draft position of a history of N >= 1 entries, N + 1       *)
(* getPrevious calls followed by N + 1 getNext calls return the entries    *)
(* newest to oldest, undefined, entries[1..N-1], the draft line and        *)
(* undefined; the cursor is 0 after the N-th and (N+1)-th getPrevious and  *)
(* N after the N-th and (N+1)-th getNext.                                  *)
NavCalls == Tail(log)

RoundTripOp(i) == IF i <= Len(history) + 1 THEN "getPrevious" ELSE "getNext"

RoundTripRet(i) ==
    LET N == Len(history)
    IN IF i <= N THEN history[N - i + 1]
       ELSE IF i = N + 1 THEN Undefined
       ELSE IF i <= 2 * N THEN history[i - N]
       ELSE IF i = 2 * N + 1 THEN currentLine
       ELSE Undefined

OnRoundTrip ==
    /\ Len(NavCalls) <= 2 * Len(history) + 2
    /\ \A i \in 1..Len(NavCalls) : NavCalls[i].op = RoundTripOp(i)

C10_FileHoldsLimitedEntries ==
    (/\ impl = "FileBacked" /\ config.save
     /\ LastCall.op = "add" /\ LastCall.arg \notin config.blacklist
     /\ ~LastCall.failed)
        => /\ historyFile # NoFile
           /\ files[historyFile] = Stringify(LastN(history, config.limit))

C10_Witness ==
    /\ impl = "FileBacked" /\ config.save
    /\ LastCall.op = "add" /\ LastCall.arg \notin config.blacklist
    /\ ~LastCall.failed
    /\ Len(history) > config.limit
    /\ files[historyFile].kind = "list"

(* the Up and Down keys that navigated the history since the last other key *)
NavKeys == Tail(log)

(* k when NavKeys is k Up keys followed by k Down keys, k >= 1; 0 otherwise *)
UpsThenDowns ==
    LET n == Len(NavKeys)
        k == n \div 2
    IN IF /\ n >= 2
          /\ n = 2 * k
          /\ \A i \in 1..k : NavKeys[i].op = "up"
          /\ \A i \in (k + 1)..n : NavKeys[i].op = "down"
       THEN k
       ELSE 0

(* C9: in the prompt, when the user has typed text T (possibly empty) and   *)
(* then, from the draft position, presses Up k times (1 <= k <= number of  *)
(* history entries) and Down k times without editing in between, the line  *)
(* being edited is T again.                                                *)
C9_DraftRestored ==
    (/\ UpsThenDowns >= 1
     /\ UpsThenDowns <= Len(history)
     /\ log[1].cursor = Len(history))
        => rlLine = log[1].arg

----------------------------------------------------------------------------
(* Properties of persistence (SpecFile)                                    *)

SameFile(c1, c2) ==
    c1.folder = c2.folder /\ c1.fileName = c2.fileName /\ c1.limit = c2.limit

(* C11: when a save that did not fail is followed by a load of the same    *)
(* instance, or by the construction of a new instance with the same        *)
(* folder, fileName and limit that loads, the entries are the last         *)
(* config.limit entries that were in memory at the save and the cursor is  *)
(* entries.length.                                                         *)
C11_SaveLoadRoundTrip ==
    [][(/\ LastCall.op = "save" /\ ~LastCall.failed
        /\ \/ LastCall'.op = "load"
           \/ LastCall'.op = "new" /\ config'.save /\ SameFile(config', config))
         => /\ history' = LastN(history, config.limit)
            /\ historyIndex' = Len(history')]_vars

(* a load read back a list of config.limit entries from a path whose first *)
(* file had been moved aside, so the list was written by a save            *)
C11_Witness ==
    /\ LastCall.op = "load" /\ ~LastCall.failed
    /\ <<historyFile, Corrupt>> \in corrupted
    /\ files[historyFile] = Stringify(history)
    /\ Len(history) = config.limit
    /\ Len(history) >= 2
    /\ historyIndex = Len(history)


(* a call that read the history file: load, or a constructor that loads *)
Loads(call) ==
    /\ call.op \in {"load", "new"}
    /\ Len(call.io) >= 2
    /\ call.io[2] = "readFileSync"

Renamed(call) == Len(call.io) = 3 /\ call.io[3] = "renameSync"

RenameThrew(call) == Len(call.io) = 3 /\ call.io[3] = "renameSync throws"

(* C12: constructing or loading a FileBackedHistory whose file exists but  *)
(* does not parse, the rename succeeding, returns with the entries empty   *)
(* and the cursor 0, no file at the original path, a backup of that path   *)
(* holding the content that did not parse, and every other file untouched. *)
C12_CorruptionRecovery ==
    [][(/\ Loads(LastCall')
        /\ files[historyFile'].kind = "corrupt"
        /\ ~RenameThrew(LastCall'))
         => /\ history' = <<>>
            /\ historyIndex' = 0
            /\ Renamed(LastCall')
            /\ files'[historyFile'] = Absent
            /\ <<historyFile', files[historyFile']>> \in corrupted'
            /\ \A p \in AllPaths \ {historyFile'} : files'[p] = files[p]]_vars

(* an explicit load of a store that does not save found the file corrupted *)
C12_Witness ==
    /\ LastCall.op = "load" /\ Renamed(LastCall)
    /\ history = <<>> /\ historyIndex = 0
    /\ files[historyFile] = Absent
    /\ <<historyFile, Corrupt>> \in corrupted
    /\ config.folder = "d1" /\ ~config.save

(* C13: when the rename of a corrupted history file fails, load and the    *)
(* constructor still return, with the entries empty and the cursor 0; the  *)
(* file stays where it was.                                                *)
C13_RenameFailure ==
    [][(Loads(LastCall') /\ RenameThrew(LastCall'))
         => /\ files[historyFile'].kind = "corrupt"
            /\ history' = <<>>
            /\ historyIndex' = 0
            /\ files' = files
            /\ corrupted' = corrupted]_vars

(* a failed rename during an explicit load *)
C13_Witness ==
    /\ LastCall.op = "load" /\ RenameThrew(LastCall)
    /\ history = <<>> /\ historyIndex = 0
    /\ files[historyFile] = Corrupt


DirThrew(call) == Len(call.io) >= 1 /\ call.io[1] = "ensureDirSync throws"

WriteThrew(call) == Len(call.io) = 2 /\ call.io[2] = "writeFileSync throws"

(* C14: when the directory creation or the file write fails in the save    *)
(* that add triggers, add returns with the added line as the last entry    *)
(* and the cursor at entries.length, no file is changed, and after a       *)
(* failed directory creation no write is attempted.                        *)
C14_AddSurvivesSaveFailure ==
    [][(LastCall'.op = "add" /\ LastCall'.failed)
         => /\ DirThrew(LastCall') \/ WriteThrew(LastCall')
            /\ DirThrew(LastCall') => Len(LastCall'.io) = 1
            /\ files' = files
            /\ Len(history') > 0
            /\ Last(history') = LastCall'.arg
            /\ historyIndex' = Len(history')]_vars

(* the directory creation failed in an add that evicted the oldest entry *)
C14_Witness ==
    /\ LastCall.op = "add" /\ DirThrew(LastCall)
    /\ config.save
    /\ Len(history) = config.limit /\ Len(history) >= 2
    /\ Last(history) = LastCall.arg
    /\ files[historyFile] # Stringify(history)


(* C15: loading a file that parses but holds no list under the known key   *)
(* is handled as corruption: the file is moved aside and the entries are   *)
(* empty afterwards. Stated for a rename that does not fail.               *)
C15_UnknownShapeIsCorruption ==
    [][(/\ Loads(LastCall')
        /\ files[historyFile'].kind = "nokey"
        /\ ~RenameThrew(LastCall'))
         => /\ history' = <<>>
            /\ files'[historyFile'] = Absent
            /\ <<historyFile', files[historyFile']>> \in corrupted']_vars

(* C16: after a load of a history file that holds more than config.limit   *)
(* entries the store holds at most config.limit entries.                   *)
C16_LoadTruncates ==
    (/\ Loads(LastCall) /\ ~LastCall.failed
     /\ files[historyFile].kind = "list"
     /\ Len(files[historyFile].history) > config.limit)
        => Len(history) <= config.limit


PathKeys == {<<"folder">>, <<"fileName">>}

(* C17: setConfig leaves the entries, the cursor and every file as they    *)
(* were and makes no file system call; given a folder or a fileName it     *)
(* sets the history file path to the join of the configured folder and     *)
(* fileName; and the save that follows writes the capacity-limited entries *)
(* to that path and to no other.                                           *)
C17_SetConfigRederivesPath ==
    [][/\ LastCall'.op = "setConfig"
          => /\ history' = history
             /\ historyIndex' = historyIndex
             /\ files' = files
             /\ corrupted' = corrupted
             /\ LastCall'.io = <<>>
             /\ LastCall'.arg \in PathKeys => historyFile' = PathOf(config')
       /\ (/\ LastCall.op = "setConfig" /\ LastCall.arg \in PathKeys
           /\ LastCall'.op = "save" /\ ~LastCall'.failed)
          => /\ files'[PathOf(config)] = Stringify(LastN(history, config.limit))
             /\ \A p \in AllPaths \ {PathOf(config)} : files'[p] = files[p]]_vars

(* the folder was changed to one whose file holds another list than the    *)
(* entries in memory, which the file of the old folder holds               *)
C17_Witness ==
    /\ LastCall.op = "setConfig" /\ LastCall.arg = <<"folder">>
    /\ historyFile = Join("d2", DEFAULT_HISTORY_FILE_NAME)
    /\ Len(history) >= 1
    /\ files[Join("d1", DEFAULT_HISTORY_FILE_NAME)] = Stringify(history)
    /\ files[historyFile].kind = "list"
    /\ files[historyFile].history # history


(* C18 (FileBackedHistory.ts and FileBackedHistory.js alike):              *)
(* while config.save is false, add makes no file system call and          *)
(* changes no file, and a constructor given save: false starts empty       *)
(* without reading a file; yet an explicit save that does not fail writes  *)
(* the last config.limit entries to the history file, and an explicit load *)
(* of a file holding a list replaces the entries by that list and sets the *)
(* cursor to its length.                                                   *)
C18_SaveFlagIsAutomaticOnly ==
    [][/\ (LastCall'.op = "add" /\ ~config.save)
          => /\ files' = files
             /\ historyFile' = historyFile
             /\ LastCall'.io = <<>>
       /\ (LastCall'.op = "new" /\ ~config'.save)
          => /\ history' = <<>>
             /\ files' = files
             /\ LastCall'.io = <<>>
       /\ (LastCall'.op = "save" /\ ~config.save /\ ~LastCall'.failed)
          => files'[PathOf(config)] = Stringify(LastN(history, config.limit))
       /\ (/\ LastCall'.op = "load" /\ ~config.save
           /\ files[PathOf(config)].kind = "list")
          => /\ history' = files[PathOf(config)].history
             /\ historyIndex' = Len(history')]_vars


----------------------------------------------------------------------------
(* Properties of the context-keyed store (SpecContexts)                    *)

OnContext(call) ==
    /\ impl = "EphemeralJs"
    /\ call.op \in {"init", "add", "getPrevious", "getNext", "getAll", "clear"}

(* context B has the same entries and the same cursor before and after,    *)
(* or has none before and after                                            *)
Untouched(B) ==
    /\ (B \in DOMAIN histories') = (B \in DOMAIN histories)
    /\ (B \in DOMAIN historyIndexes') = (B \in DOMAIN historyIndexes)
    /\ B \in DOMAIN histories
          => /\ histories'[B] = histories[B]
             /\ historyIndexes'[B] = historyIndexes[B]

(* C19: in the context-keyed store, init, add, getPrevious, getNext,       *)
(* getAll and clear on a context A leave the entries and the cursor of     *)
(* every other context B as they were.                                     *)
C19_ContextsAreIndependent ==
    [][OnContext(LastCall')
         => \A B \in Contexts \ {LastCall'.context} : Untouched(B)]_vars

(* context A was cleared while context B holds two entries, its cursor     *)
(* between them                                                            *)
C19_Witness ==
    /\ impl = "EphemeralJs"
    /\ LastCall.op = "clear" /\ LastCall.context = "A"
    /\ DOMAIN histories = {"A", "B"}
    /\ histories["A"] = <<>>
    /\ Len(histories["B"]) = 2
    /\ historyIndexes["B"] = 1


(* after the step every context reads as empty, its cursor 0 *)
ReadsEmpty(c) ==
    LET r == contextGetAll(histories', historyIndexes', c)
    IN r.list = <<>> /\ r.historyIndexes[c] = 0

(* C20: clear empties the entries of the given log and sets its cursor to  *)
(* 0; clearAll removes every context, so that each context afterwards      *)
(* reads as empty with cursor 0; clear on a context that was never used    *)
(* changes nothing.                                                        *)
C20_Clear ==
    [][/\ impl = "Ephemeral" /\ LastCall'.op = "clear"
          => history' = <<>> /\ historyIndex' = 0
       /\ impl = "EphemeralJs" /\ LastCall'.op = "clear"
          => LET c == LastCall'.context
             IN IF c \in DOMAIN histories
                THEN /\ histories' = Put(histories, c, <<>>)
                     /\ historyIndexes' = Put(historyIndexes, c, 0)
                ELSE UNCHANGED contextVars
       /\ impl = "EphemeralJs" /\ LastCall'.op = "clearAll"
          => /\ DOMAIN histories' = {}
             /\ \A c \in Contexts : ReadsEmpty(c)]_vars

(* context A was cleared right after an entry was added to it *)
C20_Witness ==
    /\ impl = "EphemeralJs"
    /\ Len(log) = 2
    /\ log[1].op = "add" /\ log[1].context = "A"
    /\ log[2].op = "clear" /\ log[2].context = "A"
    /\ histories["A"] = <<>>
    /\ historyIndexes["A"] = 0


----------------------------------------------------------------------------
(* Properties of getAll (SpecGetAll)                                       *)

(* C21: getAll returns the entries oldest-first and changes neither the    *)
(* entries nor the cursor, and a push to the list it returned changes      *)
(* neither.                                                                *)
C21_GetAllReturnsCopy ==
    [][/\ LastCall'.op = "getAll"
          => /\ LastCall'.list = history
             /\ history' = history
             /\ historyIndex' = historyIndex
       /\ LastCall'.op = "push"
          => /\ history' = history
             /\ historyIndex' = historyIndex]_vars

(* the caller pushed to the list of a store whose cursor is on an entry *)
C21_Witness ==
    /\ LastCall.op = "push"
    /\ Len(LastCall.list) = Len(history) + 1
    /\ Len(history) >= 2
    /\ historyIndex = 1


----------------------------------------------------------------------------
(* Properties of the completion formatters (SpecFormat)                    *)

(* C22: in both formatters the elements the match test selects are exactly *)
(* the elements that literally start with the partial line, in their       *)
(* order; a dot of the partial line matches a dot only.                    *)
C22_LiteralMatch ==
    /\ LastCall.op = "format.ts"
          => LastCall.filtered =
                Starting(Elements(LastCall.options, LastCall.cmds),
                         LastCall.line)
    /\ LastCall.op = "format.js"
          => LastCall.filtered = Starting(LastCall.cmds, LastCall.line)

(* the partial line is a dot and of two candidates of the same length only *)
(* the one that starts with a dot is selected                              *)
C22_Witness ==
    /\ LastCall.op = "format.ts"
    /\ LastCall.line = <<".">>
    /\ LastCall.cmds = << <<"a", "a">>, <<".", "a">> >>
    /\ LastCall.filtered = << <<".", "a">> >>


(* the longest string every element of ls starts with; ls is not empty *)
LongestCommonPrefix(ls) ==
    LET common(n) == \A k \in 1..Len(ls) : StartsWith(ls[k], SubSeq(ls[1], 1, n))
        n == CHOOSE n \in 0..Len(ls[1]) :
                /\ common(n)
                /\ \A m \in (n + 1)..Len(ls[1]) : ~common(m)
    IN SubSeq(ls[1], 1, n)

(* two or more candidates start with the line and share more than it *)
Extensible(call) ==
    /\ call.op \in {"format.ts", "format.js"}
    /\ call.options = "absent"
    /\ Len(Starting(call.cmds, call.line)) >= 2
    /\ Len(LongestCommonPrefix(Starting(call.cmds, call.line)))
          > Len(call.line)

(* C24: when two or more candidates start with the partial line and their  *)
(* longest common prefix is longer than the partial line, the formatter    *)
(* yields that prefix as the one completion and not the list of matches.   *)
C24_CommonPrefixExpansion ==
    Extensible(LastCall)
       => LET prefix ==
                 LongestCommonPrefix(Starting(LastCall.cmds, LastCall.line))
          IN IF LastCall.op = "format.ts"
             THEN LastCall.result = <<prefix>>
             ELSE LastCall.result = Match(prefix)


----------------------------------------------------------------------------
(* Properties of the Tab key (SpecTab)                                     *)

(* the candidates of the prompt that start with the partial line of a Tab *)
StartingAt(call) == Starting(promptConfig.autoCompletion.cmds, call.partial)

(* a Tab whose supplier returned, exactly one candidate starting with the  *)
(* partial line                                                            *)
TabWithOne(call) ==
    /\ call.op = "tab"
    /\ ~call.failed
    /\ Len(StartingAt(call)) = 1

(* Tab with one candidate c puts c into the line, and the Enter after it   *)
(* submits c                                                               *)
CompletesWith(c) ==
    /\ TabWithOne(LastCall')
          => /\ rlLine' = c
             /\ activeLines' = <<c>>
             /\ inactiveLines' = <<>>
             /\ status' = "idle"
    /\ (/\ Len(log') = 2
        /\ TabWithOne(log'[1])
        /\ log'[2].op = "enter")
          => /\ answer' = c
             /\ status' = "done"

UniqueMatchJs ==
    (/\ LastCall.op = "format.js"
     /\ Len(Starting(LastCall.cmds, LastCall.line)) = 1)
       => LastCall.result
             = Match(Filter(LastCall.options,
                            Starting(LastCall.cmds, LastCall.line)[1]))

(* a Tab whose supplier returned, two or more candidates starting with the *)
(* partial line and sharing nothing beyond it                              *)
TabWithMenu(call) ==
    /\ call.op = "tab"
    /\ ~call.failed
    /\ Len(StartingAt(call)) >= 2
    /\ LongestCommonPrefix(StartingAt(call)) = call.partial

(* C25: when two or more candidates start with the partial line and share  *)
(* no common extension beyond it, Tab leaves the edited line unchanged and *)
(* the menu is exactly the candidates that start with the partial line, in *)
(* supplier order, whatever their number and lengths.                      *)
C25_MenuOfAllMatches ==
    [][TabWithMenu(LastCall')
          => /\ LastCall'.matches = StartingAt(LastCall')
             /\ activeLines' = activeLines
             /\ inactiveLines' = inactiveLines
             /\ displayContent' = "Available commands:"]_vars

(* the js formatter lists every candidate that starts with the line when   *)
(* they share nothing beyond it                                            *)
MenuOfAllMatchesJs ==
    (/\ LastCall.op = "format.js"
     /\ Len(Starting(LastCall.cmds, LastCall.line)) >= 2
     /\ LongestCommonPrefix(Starting(LastCall.cmds, LastCall.line))
           = LastCall.line)
       => LastCall.result = Matches(Starting(LastCall.cmds, LastCall.line))


(* a Tab whose supplier returned, no candidate starting with the partial   *)
(* line                                                                    *)
TabWithNone(call) ==
    /\ call.op = "tab"
    /\ ~call.failed
    /\ Len(StartingAt(call)) = 0

NoMatchJs ==
    (/\ LastCall.op = "format.js"
     /\ Len(Starting(LastCall.cmds, LastCall.line)) = 0)
       => LastCall.result = Match(Filter(LastCall.options, LastCall.line))


(* a formatter call on a list whose first element is a configuration       *)
(* object                                                                  *)
Configured(call) ==
    /\ call.op \in {"format.ts", "format.js"}
    /\ call.options # "absent"

(* the object is taken off before matching; the one string to splice into  *)
(* the line goes through its filter, a menu does not                       *)
ObjectRemoved(call) ==
    LET starting == Starting(call.cmds, call.line)
        spliced == IF Len(starting) = 0 THEN call.line
                   ELSE LongestCommonPrefix(starting)
        menu == Len(starting) >= 2 /\ spliced = call.line
    IN /\ call.filtered = starting
       /\ call.op = "format.js"
             => call.result = IF menu THEN Matches(starting)
                              ELSE Match(Filter(call.options, spliced))
       /\ call.op = "format.ts"
             => /\ \A k \in 1..Len(call.result) :
                      call.result[k] # ObjectString
                /\ Len(starting) = 1
                      => call.result = <<Filter(call.options, spliced)>>

(* C27: a configuration object at the head of the resolved candidate list  *)
(* is removed before matching, so it is never matched or listed; its       *)
(* filter, or the identity when it has none, is applied to the single      *)
(* string spliced into the line, and a menu of matches is not filtered.    *)
C27_ConfigurationObject ==
    Configured(LastCall) => ObjectRemoved(LastCall)

(* the same for the formatter of index.js alone *)
ConfigurationObjectJs ==
    (Configured(LastCall) /\ LastCall.op = "format.js")
       => ObjectRemoved(LastCall)

(* the js formatter applied the filter of the object to the one match *)
ConfigurationObjectJsSeen ==
    /\ LastCall.op = "format.js"
    /\ LastCall.options = "cut"
    /\ LastCall.line = <<"a">>
    /\ LastCall.filtered = << <<"a", ".">> >>
    /\ LastCall.result = Match(<<"a">>)


(* C28: when the candidate supplier throws or rejects during a Tab, the    *)
(* input loop goes on: the edited line is unchanged, the prompt stays idle *)
(* and later key events are still processed.                               *)
C28_SupplierFailureIsContained ==
    [][(LastCall'.op = "tab" /\ LastCall'.failed)
          => /\ activeLines' = activeLines
             /\ inactiveLines' = inactiveLines
             /\ rlLine' = activeLines[Len(activeLines)]
             /\ status' = "idle"
             /\ process' = "running"]_vars

(* a supplier failed and the runtime went on: the line and the status are  *)
(* as they were                                                            *)
SupplierFailureKeepsLine ==
    [][(LastCall'.op = "tab" /\ LastCall'.failed)
          => /\ activeLines' = activeLines
             /\ inactiveLines' = inactiveLines
             /\ rlLine' = activeLines[Len(activeLines)]
             /\ status' = "idle"]_vars


----------------------------------------------------------------------------
(* Properties of Tab with an awaited supplier (SpecTabAsync)               *)

(* since the event at position at of the log, the line was edited or       *)
(* another completion was requested                                        *)
NewerSince(at) ==
    \E k \in (at + 1)..Len(log) :
       log[k].op \in {"char", "backspace", "tab.start"}

(* C29: when a newer completion request or an edit of the line happened    *)
(* while a supplier call was pending, the result of the older call is      *)
(* ignored when it resolves: the line and the menu stay as they are.       *)
C29_StaleResultIgnored ==
    [][(/\ LastCall'.op = "tab.settle"
        /\ ~LastCall'.failed
        /\ NewerSince(LastCall'.at))
          => UNCHANGED <<activeLines, inactiveLines, displayContent,
                         rlLine>>]_vars

(* a call that resolves with nothing newer than it does what Tab does      *)
(* with a supplier that answers at once                                    *)
FreshResultShown ==
    [][(/\ LastCall'.op = "tab.settle"
        /\ ~LastCall'.failed
        /\ ~NewerSince(LastCall'.at)
        /\ Len(LastCall'.matches) = 1)
          => /\ activeLines' = <<LastCall'.matches[1]>>
             /\ rlLine' = LastCall'.matches[1]]_vars


----------------------------------------------------------------------------
(* Properties of Enter (SpecEnterJs, SpecPrompt)                           *)

(* the step submits the edited text: Enter on an idle prompt, other than   *)
(* the Enter that opens a new line in multi-line mode                      *)
Submits ==
    /\ status = "idle"
    /\ LastCall'.op \in {"enter", "meta+enter"}
    /\ ~(multiLine /\ LastCall'.op = "enter")
    /\ ~NoLastLine(activeLines)

(* the step is the settlement of the awaited validator *)
Settles == pending # <<>> /\ pending' = <<>>

(* what Enter and the validator's answer do with the submitted text *)
AcceptedIff ==
    LET value == JoinLines(activeLines \o inactiveLines)
        refused == promptConfig.required /\ IsBlank(value)
    IN /\ (Submits /\ refused)
             => /\ status' = "idle"
                /\ displayContent' = "You must provide a value"
                /\ pending' = <<>>
                /\ answer' = answer
       /\ (Submits /\ ~refused /\ ~promptConfig.validate)
             => /\ status' = "done"
                /\ answer' = value
       /\ (Submits /\ ~refused /\ promptConfig.validate)
             => /\ status' = "loading"
                /\ pending' = <<value>>
                /\ answer' = answer
       /\ (Settles /\ LastCall'.op = "validate:true")
             => /\ status' = "done"
                /\ answer' = pending[1]
       /\ (Settles /\ LastCall'.op # "validate:true")
             => /\ status' = "idle"
                /\ answer' = answer
                /\ process' = "running"
       /\ (Settles /\ LastCall'.op = "validate:throw")
             => displayContent' = "Validation error"

(* C30: on Enter the answer is accepted if and only if (required is not    *)
(* set or the answer is not blank) and (there is no validator or it        *)
(* returns exactly true); a blank answer refused by required does not      *)
(* reach the validator, and a validator that throws or rejects is a        *)
(* rejection with the message 'Validation error', the prompt going on.     *)
C30_AcceptedIff == [][AcceptedIff]_vars

(* the same with blank read as empty, as index.js reads it *)
AcceptedIffNotEmpty ==
    [][LET value == JoinLines(activeLines \o inactiveLines)
           refused == promptConfig.required /\ value = EmptyLine
       IN /\ (Submits /\ refused)
                => /\ status' = "idle"
                   /\ displayContent' = "You must provide a value"
                   /\ pending' = <<>>
          /\ (Submits /\ ~refused /\ ~promptConfig.validate)
                => /\ status' = "done"
                   /\ answer' = value
          /\ (Submits /\ ~refused /\ promptConfig.validate)
                => /\ status' = "loading"
                   /\ pending' = <<value>>]_vars


----------------------------------------------------------------------------
(* Properties of the prompt after a submission (SpecMultiLine)             *)

(* the messages a rejected submission displays *)
ErrorMessages ==
    {"You must provide a value", "Validation error", "message",
     "You must provide a valid value"}

(* the step rejects the submitted text: at Enter by required, or when the  *)
(* validator has answered                                                  *)
Rejects == (Submits \/ Settles) /\ status' = "idle"

RejectionRestoresLine ==
    [][Rejects => rlLine' = activeLines[Len(activeLines)]]_vars

----------------------------------------------------------------------------
(* Properties of the store after setConfig (SpecLimit)                     *)

(* C32: when setConfig has lowered the limit below the number of entries,  *)
(* the next add of a new line leaves no more entries than the new limit.   *)
C32_AddEvictsToNewLimit ==
    [][(/\ LastCall.op = "setConfig"
        /\ Len(history) > config.limit
        /\ LastCall'.op = "add"
        /\ history' # history)
          => Len(history') <= config.limit]_vars


----------------------------------------------------------------------------
(* Properties of the order of the entries (Spec)                           *)

(* h2 is h without some of its first entries *)
FrontRemoved(h, h2) ==
    \E k \in 0..Len(h) : h2 = SubSeq(h, k + 1, Len(h))

(* h2 is h with at most one line appended and then without some of its     *)
(* first entries                                                           *)
AppendedOrEvicted(h, h2) ==
    \/ FrontRemoved(h, h2)
    \/ \E value \in Lines : FrontRemoved(Append(h, value), h2)

(* what the calls other than load may do to the entries *)
EntriesStep ==
    /\ LastCall'.op \in {"getPrevious", "getNext", "getAll", "setCurrent",
                         "setConfig", "save"}
          => history' = history
    /\ LastCall'.op = "add" => AppendedOrEvicted(history, history')
    /\ LastCall'.op = "clear" => history' = <<>>

(* C33 as stated: every operation changes the entries only by appending    *)
(* one line at the end and removing lines from the front, or by emptying   *)
(* them in clear and in the recovery from a corrupted file; the reading    *)
(* calls, setCurrent and setConfig never change them.                      *)
C33_EntriesOnlyAppendedOrEvicted ==
    [][/\ EntriesStep
       /\ LastCall'.op = "load"
             => \/ AppendedOrEvicted(history, history')
                \/ history' = <<>> /\ LastCall'.failed]_vars

(* C33, amended: the same, and a load that finds a list in the file        *)
(* replaces the entries by that list.                                      *)
C33_EntriesAppendedEvictedOrLoaded ==
    [][/\ EntriesStep
       /\ LastCall'.op = "load"
             => \/ history' = history
                \/ history' = <<>> /\ LastCall'.failed
                \/ /\ files[resolveFile(historyFile, config)].kind = "list"
                   /\ history'
                         = files[resolveFile(historyFile, config)].history]_vars

(* an add into a full log of two different lines: the oldest was evicted   *)
(* and the new line is the last                                            *)
C33_Witness ==
    /\ LastCall.op = "add"
    /\ config.limit = 2
    /\ history = << <<"b">>, <<"a">> >>
    /\ LastCall.arg = <<"a">>


----------------------------------------------------------------------------
(* Properties of a corrupted history file after its load (SpecFile)        *)

(* C34: the content of a history file that a load found corrupted is not   *)
(* destroyed: the call that follows writes to the path of the file only    *)
(* when the corrupted content was moved to a .corrupted-<timestamp> file,  *)
(* whatever the outcome of the rename.                                     *)
C34_CorruptedContentIsKept ==
    [][(Loads(LastCall) /\ LastCall.failed)
          => \A p \in AllPaths :
                (files[p].kind = "corrupt" /\ files'[p] # files[p])
                   => <<p, files[p]>> \in corrupted']_vars

(* when the rename succeeded the corrupted content is in the moved file    *)
(* and the path is free for the saves that follow                          *)
RenamedContentIsKept ==
    [][(Loads(LastCall') /\ Renamed(LastCall'))
          => /\ <<historyFile', files[historyFile']>> \in corrupted'
             /\ files'[historyFile'] = Absent]_vars


----------------------------------------------------------------------------
(* Properties of the load of the multi-context store (SpecDefault)         *)

(* the call read a file that JSON.parse rejected *)
FoundCorrupted(call) ==
    /\ Loads(call)
    /\ call.failed

(* C35: the multi-context store loading an unparseable file renames it to  *)
(* <original>.corrupted-<timestamp> in its directory, leaves every context *)
(* empty and throws nothing.                                               *)
C35_MultiContextQuarantine ==
    [][FoundCorrupted(LastCall')
          => /\ Len(LastCall'.io) = 3
             /\ Renamed(LastCall')
                   => /\ files'[historyFile] = Absent
                      /\ <<historyFile, files[historyFile]>> \in corrupted'
             /\ histories' = NoContexts
             /\ historyIndexes' = NoContexts]_vars

(* the same for the version of unnamed/part_006 alone *)
QuarantineOfBackupVersion ==
    [][(FoundCorrupted(LastCall') /\ impl = "DefaultBackup")
          => /\ Len(LastCall'.io) = 3
             /\ Renamed(LastCall')
                   => /\ files'[historyFile] = Absent
                      /\ <<historyFile, files[historyFile]>> \in corrupted'
             /\ histories' = NoContexts
             /\ historyIndexes' = NoContexts]_vars

(* that version found a corrupted file and moved it                        *)
QuarantineSeen ==
    /\ impl = "DefaultBackup"
    /\ LastCall.op = "load"
    /\ Renamed(LastCall)
    /\ histories = NoContexts
    /\ <<historyFile, Corrupt>> \in corrupted


----------------------------------------------------------------------------
(* Properties of the resolution of a prompt (SpecMultiLine, SpecPrompt)    *)

(* the step resolves the prompt: done(answer) *)
Resolves ==
    /\ status # "done"
    /\ status' = "done"
    /\ answer = Undefined
    /\ answer' # Undefined

(* the step opens the next prompt *)
OpensPrompt == LastCall'.op = "prompt" /\ status = "done"

(* C36: for one prompt the answer is added to the history at most once and *)
(* the prompt resolves at most once: the entries change only in the step   *)
(* that resolves the prompt, that step adds the resolved value and nothing *)
(* else, and once the prompt is done no key event changes the entries or   *)
(* the answer.                                                             *)
C36_AddedOnceResolvedOnce ==
    [][/\ history' # history => Resolves
       /\ answer' # answer => (Resolves \/ OpensPrompt)
       /\ status' = "done" => (Resolves \/ status = "done")
       /\ Resolves
             => /\ history'
                      = addEntry(history, historyIndex, config, answer').history
                /\ answer' \in {JoinLines(activeLines \o inactiveLines)}
                                  \cup {pending[i] : i \in 1..Len(pending)}
       /\ (status = "done" /\ ~OpensPrompt)
             => /\ history' = history
                /\ historyIndex' = historyIndex
                /\ answer' = answer
                /\ status' = "done"]_vars

(* a key arrived after the prompt resolved with the line it added *)
C36_Witness ==
    /\ status = "done"
    /\ LastCall.op = "up"
    /\ answer = <<"a">>
    /\ history = <<<<"a">>>>


----------------------------------------------------------------------------
(* Properties of the prompt during a validation (SpecPrompt)               *)

(* a key event arrives while the validator's answer is awaited *)
KeyWhileValidating ==
    /\ status = "loading"
    /\ ~Settles

(* what the handler itself leaves alone during a validation: the lines of  *)
(* the prompt's state, the store and the awaited validation                *)
ValidationIgnoresKeys ==
    [][KeyWhileValidating
          => /\ UNCHANGED <<activeLines, inactiveLines, displayContent>>
             /\ UNCHANGED <<history, historyIndex, currentLine>>
             /\ UNCHANGED <<status, pending, answer>>]_vars

(* C37: while a submission is being validated, key events (a second Enter, *)
(* Up, Down, characters) change neither the edited line, in the prompt's   *)
(* state and in readline, nor the entries, nor the cursor, and start no    *)
(* second validation.                                                      *)
C37_ValidationIgnoresKeys ==
    [][KeyWhileValidating
          => /\ UNCHANGED <<activeLines, inactiveLines, rlLine>>
             /\ UNCHANGED <<history, historyIndex>>
             /\ UNCHANGED <<status, pending>>]_vars

(* the text on the screen when the validator refused is the text the next  *)
(* character is appended to                                                *)
TypingContinuesShownText ==
    [][(status = "idle" /\ displayContent \in ErrorMessages
        /\ ~NoLastLine(activeLines) /\ LastCall'.op = "char")
          => /\ StartsWith(activeLines'[Len(activeLines')],
                           activeLines[Len(activeLines)])
             /\ Len(activeLines'[Len(activeLines')])
                   = Len(activeLines[Len(activeLines)]) + 1]_vars


----------------------------------------------------------------------------
(* Properties of the multi-line mode (SpecMultiLine)                       *)

(* the lines of a text: the text split at its newline characters *)
RECURSIVE SplitLines(_)
SplitLines(str) ==
    IF \A i \in 1..Len(str) : str[i] # Newline THEN <<str>>
    ELSE LET i == CHOOSE i \in 1..Len(str) :
                     /\ str[i] = Newline
                     /\ \A j \in 1..(i - 1) : str[j] # Newline
         IN <<SubSeq(str, 1, i - 1)>>
               \o SplitLines(SubSeq(str, i + 1, Len(str)))

(* the lines as join reads them: a line that is undefined reads as empty *)
TextOf(ls) ==
    [i \in 1..Len(ls) |-> IF ls[i] = Undefined THEN EmptyLine ELSE ls[i]]

(* the text the step handed to the validator or resolved the prompt with,  *)
(* if any                                                                  *)
Submitted ==
    IF status' = "done" THEN <<answer'>>
    ELSE IF status' = "loading" THEN pending'
    ELSE <<>>

NewLineSeen ==
    /\ multiLine
    /\ LastCall.op = "enter"
    /\ status = "idle"
    /\ activeLines = <<<<"a">>, EmptyLine>>
    /\ history = <<>>


----------------------------------------------------------------------------
(* Properties of the lines of the prompt (SpecMultiLine)                   *)

(* C39: in every reachable state of the prompt the list of active lines is *)
(* not empty, so the last active line that Enter, Tab and the character    *)
(* keys read exists, also after any number of Up keys in multi-line mode.  *)
C39_ActiveLinesNonEmpty ==
    /\ Len(activeLines) >= 1
    /\ ~NoLastLine(activeLines)

(* a key outside the multi-line mode leaves a last active line in place    *)
SingleLineHasLastLine ==
    [][(~multiLine /\ ~multiLine' /\ ~NoLastLine(activeLines))
          => ~NoLastLine(activeLines')]_vars


----------------------------------------------------------------------------
(* Properties of the Shift+Right key (SpecShiftRight)                      *)

(* the step is the handler's run for Shift+Right *)
ShiftRight == LastCall'.op = "shift+right"

(* the listing has every entry, in order, with its index *)
ListsEveryEntry ==
    /\ ~LastCall'.failed
    /\ process' = "running"
    /\ displayContent' = "History:"
    /\ Len(LastCall'.shown) = Len(history)
    /\ \A k \in 1..Len(history) :
          /\ LastCall'.shown[k].index.index = k - 1
          /\ LastCall'.shown[k].entry = history[k]

(* C40: Shift+Right lists every history entry with its index, leaves the   *)
(* entries and the cursor unchanged and never throws, for every reachable  *)
(* history and every configured limit, a history longer than the limit     *)
(* after a load or after the limit was lowered included.                   *)
C40_ShiftRightListsHistory ==
    [][ShiftRight
          => /\ ListsEveryEntry
             /\ UNCHANGED <<history, historyIndex>>]_vars

(* the same where the largest index has no more digits than the limit *)
ShiftRightWithinWidth ==
    [][(ShiftRight /\ (Len(history) = 0
                       \/ Digits(Len(history) - 1) <= Digits(config.limit)))
          => /\ ListsEveryEntry
             /\ UNCHANGED <<history, historyIndex>>]_vars

(* the entries and the cursor are left alone also when the handler throws *)
ShiftRightKeepsStore ==
    [][ShiftRight
          => UNCHANGED <<history, historyIndex, currentLine, files>>]_vars

(* a history longer than its limit was listed *)
LongHistoryListed ==
    /\ LastCall.op = "shift+right"
    /\ ~LastCall.failed
    /\ Len(LastCall.shown) > config.limit

====
